---- MODULE Spec2Model ----
(***************************************************************************)
(* A model of zkutil::ZooKeeper (src/Common/ZooKeeper/ZooKeeper.cpp): the  *)
(* synchronous bridge over the asynchronous protocol engine, the error     *)
(* classification of the per-operation wrappers, and the multi-operation   *)
(* transaction wrapper with KeeperMultiException.                          *)
(*                                                                         *)
(* The protocol engine (Coordination::IKeeper, `impl`) and the server are  *)
(* external to ZooKeeper.cpp; their contract is modelled from the design   *)
(* document: a request is submitted with a completion callback, the engine *)
(* answers it at most once, finalize() terminates the session and answers  *)
(* every outstanding request with ZSESSIONEXPIRED, and a submission on a   *)
(* terminated session throws ZSESSIONEXPIRED.                              *)
(***************************************************************************)
EXTENDS Integers, Sequences, FiniteSets, TLC

\* ------------------------------------------------------------------ bounds
\* Number of caller threads sharing one client handle.
NumThreads == 2
\* operation_timeout_ms, counted in clock ticks of a waiting thread.
OperationTimeout == 1
\* Longest request list handed to multi.
MaxOps == 2
\* Highest node version the server hands out.
MaxVersion == 1

Threads == 1..NumThreads

\* ------------------------------------------------------------- result codes
ZOK == "ZOK"
ZNONODE == "ZNONODE"
ZNODEEXISTS == "ZNODEEXISTS"
ZBADVERSION == "ZBADVERSION"
ZNOTEMPTY == "ZNOTEMPTY"
ZNOCHILDRENFOREPHEMERALS == "ZNOCHILDRENFOREPHEMERALS"
ZOPERATIONTIMEOUT == "ZOPERATIONTIMEOUT"
ZSESSIONEXPIRED == "ZSESSIONEXPIRED"
ZCONNECTIONLOSS == "ZCONNECTIONLOSS"
ZBADARGUMENTS == "ZBADARGUMENTS"
ZRUNTIMEINCONSISTENCY == "ZRUNTIMEINCONSISTENCY"

UserErrors == {ZNONODE, ZNODEEXISTS, ZBADVERSION, ZNOTEMPTY, ZNOCHILDRENFOREPHEMERALS}
SessionErrors == {ZOPERATIONTIMEOUT, ZSESSIONEXPIRED, ZCONNECTIONLOSS}
Codes == {ZOK} \cup UserErrors \cup SessionErrors \cup {ZBADARGUMENTS, ZRUNTIMEINCONSISTENCY}

\* Coordination::isUserError: the codes attributable to one operation.
isUserError(code) == code \in UserErrors

\* ------------------------------------------------------------------- paths
\* A node path is the sequence of its segments; <<>> is the root "/".
Root == <<>>
PathA == <<"a">>
PathAB == <<"a", "b">>
Paths == {PathA, PathAB}
PathAC == <<"a", "c">>
PathAD == <<"a", "d">>
\* Every node the server's tree can hold.
AllPaths == Paths \cup {PathAC, PathAD}
\* The path of an exception that carries none (KeeperException(code)).
NoPath == <<"">>
AnyVersion == 0 - 1

Parent(p) == SubSeq(p, 1, Len(p) - 1)
Children(ns, p) == {q \in ns : Len(q) = Len(p) + 1 /\ Parent(q) = p}
HasChildren(ns, p) == Children(ns, p) # {}

RECURSIVE SeqOf(_)
SeqOf(S) ==
    IF S = {} THEN <<>>
    ELSE LET x == CHOOSE y \in S : TRUE IN <<x>> \o SeqOf(S \ {x})

\* The names of the children of p, in the order the server lists them.
ChildNames(ns, p) == SeqOf({q[Len(q)] : q \in Children(ns, p)})

\* ------------------------------------------------- requests and responses
Request(kind, path, version) == [kind |-> kind, path |-> path, version |-> version]
SubRequests ==
    { Request("Set", PathA, 0), Request("Set", PathAB, 1),
      Request("Remove", PathAB, AnyVersion), Request("Check", PathA, AnyVersion) }

RECURSIVE SeqsUpTo(_, _)
SeqsUpTo(S, n) ==
    IF n = 0 THEN {<<>>}
    ELSE LET shorter == SeqsUpTo(S, n - 1)
         IN shorter \cup { Append(s, x) : s \in {r \in shorter : Len(r) = n - 1}, x \in S }

Batches == SeqsUpTo(SubRequests, MaxOps)

\* A response: the top-level code, the per-operation codes of a multi, and
\* who produced it (the server, or the engine on its own).
Response(error, responses, src) ==
    [error |-> error, responses |-> responses, names |-> <<>>, src |-> src]
ListResponse(error, names, src) ==
    [error |-> error, responses |-> <<>>, names |-> names, src |-> src]
NoResponse == Response("unset", <<>>, "none")

\* ------------------------------------------------------ server (contract)
\* What the server answers to one request on the tree (ns: existing nodes,
\* vs: their versions), and the tree afterwards.
Applied(error, ns, vs) == [error |-> error, nodes |-> ns, ver |-> vs]

ServerApply(req, ns, vs) ==
    LET p == req.path
        badVersion == req.version # AnyVersion /\ req.version # vs[p]
    IN CASE p \notin AllPaths \cup {Root} -> Applied(ZBADARGUMENTS, ns, vs)
         [] req.kind = "Create" ->
              IF p \in ns \/ p = Root THEN Applied(ZNODEEXISTS, ns, vs)
              ELSE IF Parent(p) # Root /\ Parent(p) \notin ns THEN Applied(ZNONODE, ns, vs)
              ELSE Applied(ZOK, ns \cup {p}, [vs EXCEPT ![p] = 0])
         [] req.kind = "Remove" ->
              IF p \notin ns THEN Applied(ZNONODE, ns, vs)
              ELSE IF badVersion THEN Applied(ZBADVERSION, ns, vs)
              ELSE IF HasChildren(ns, p) THEN Applied(ZNOTEMPTY, ns, vs)
              ELSE Applied(ZOK, ns \ {p}, [vs EXCEPT ![p] = 0])
         [] req.kind = "Set" ->
              IF p \notin ns THEN Applied(ZNONODE, ns, vs)
              ELSE IF badVersion THEN Applied(ZBADVERSION, ns, vs)
              ELSE Applied(ZOK, ns, [vs EXCEPT ![p] = vs[p] + 1])
         [] OTHER -> \* Exists, Get, List, Check
              IF p # Root /\ p \notin ns THEN Applied(ZNONODE, ns, vs)
              ELSE IF req.kind = "Check" /\ badVersion THEN Applied(ZBADVERSION, ns, vs)
              ELSE Applied(ZOK, ns, vs)

\* A multi is applied operation by operation; the first failure rolls the
\* whole batch back. Operations before the failed one answer ZOK, the ones
\* after it ZRUNTIMEINCONSISTENCY.
RECURSIVE ServerMultiFrom(_, _, _, _, _)
ServerMultiFrom(reqs, i, ns, vs, acc) ==
    IF i > Len(reqs) THEN [error |-> ZOK, nodes |-> ns, ver |-> vs, responses |-> acc]
    ELSE LET a == ServerApply(reqs[i], ns, vs)
         IN IF a.error = ZOK THEN ServerMultiFrom(reqs, i + 1, a.nodes, a.ver, Append(acc, ZOK))
            ELSE [error |-> a.error, nodes |-> ns, ver |-> vs,
                  responses |-> acc \o <<a.error>>
                                \o [j \in 1..(Len(reqs) - i) |-> ZRUNTIMEINCONSISTENCY]]

ServerMulti(reqs, ns, vs) ==
    LET m == ServerMultiFrom(reqs, 1, ns, vs, <<>>)
    IN IF m.error = ZOK THEN m ELSE [m EXCEPT !.nodes = ns, !.ver = vs]

\* ------------------------------------------------- the synchronous bridge
\* What an *Impl function hands back. status is what future.wait_for said
\* ("ready", "timeout"), or "unsubmitted" when no request was submitted;
\* finalize tells whether impl->finalize was called; wrote tells whether the
\* caller's output parameters were assigned; responses is the caller's
\* response list after a multi.
Bridged(status, code, finalize, wrote, responses) ==
    [status |-> status, code |-> code, finalize |-> finalize, wrote |-> wrote,
     responses |-> responses]

getChildrenImpl(path, status, response) ==
    IF status # "ready"
    THEN Bridged(status, ZOPERATIONTIMEOUT, TRUE, FALSE, <<>>)
    ELSE Bridged(status, response.error, FALSE, response.error = ZOK, <<>>)

createImpl(path, status, response) ==
    IF status # "ready"
    THEN Bridged(status, ZOPERATIONTIMEOUT, TRUE, FALSE, <<>>)
    ELSE Bridged(status, response.error, FALSE, response.error = ZOK, <<>>)

removeImpl_NoFinalize(path, status, response) ==
    IF status # "ready"
    THEN Bridged(status, ZOPERATIONTIMEOUT, FALSE, FALSE, <<>>)
    ELSE Bridged(status, response.error, FALSE, FALSE, <<>>)

removeImpl(path, status, response) ==
    IF status # "ready"
    THEN Bridged(status, ZOPERATIONTIMEOUT, TRUE, FALSE, <<>>)
    ELSE Bridged(status, response.error, FALSE, FALSE, <<>>)

existsImpl(path, status, response) ==
    IF status # "ready"
    THEN Bridged(status, ZOPERATIONTIMEOUT, TRUE, FALSE, <<>>)
    ELSE Bridged(status, response.error, FALSE, response.error = ZOK, <<>>)

getImpl_WritesWhateverTheCode(path, status, response) ==
    IF status # "ready"
    THEN Bridged(status, ZOPERATIONTIMEOUT, TRUE, FALSE, <<>>)
    ELSE Bridged(status, response.error, FALSE, TRUE, <<>>)

getImpl(path, status, response) ==
    IF status # "ready"
    THEN Bridged(status, ZOPERATIONTIMEOUT, TRUE, FALSE, <<>>)
    ELSE Bridged(status, response.error, FALSE, response.error = ZOK, <<>>)

setImpl(path, status, response) ==
    IF status # "ready"
    THEN Bridged(status, ZOPERATIONTIMEOUT, TRUE, FALSE, <<>>)
    ELSE Bridged(status, response.error, FALSE, response.error = ZOK, <<>>)

multiImpl_EmptyNotShortCircuited(requests, status, response) ==
    IF status # "ready"
    THEN Bridged(status, ZOPERATIONTIMEOUT, TRUE, FALSE, <<>>)
    ELSE Bridged(status, response.error, FALSE, TRUE, response.responses)

multiImpl(requests, status, response) ==
    IF requests = <<>>
    THEN Bridged("unsubmitted", ZOK, FALSE, FALSE, <<>>)
    ELSE IF status # "ready"
    THEN Bridged(status, ZOPERATIONTIMEOUT, TRUE, FALSE, <<>>)
    ELSE Bridged(status, response.error, FALSE, TRUE, response.responses)

\* ------------------------------------------------------ how a call ends
\* kind: "returned", or the exception raised. value: the returned value
\* (a code, "true"/"false", "void", or what the operation yields on success).
\* return_code: tryGetWatch's optional output parameter.
Ended(b, kind, value, exc_code, exc_path, failed_op_index, return_code) ==
    [status |-> b.status, code |-> b.code, finalize |-> b.finalize, wrote |-> b.wrote,
     responses |-> b.responses,
     kind |-> kind, value |-> value, exc_code |-> exc_code, exc_path |-> exc_path,
     failed_op_index |-> failed_op_index, return_code |-> return_code]

NoIndex == 0 - 1
Return(b, value) == Ended(b, "returned", value, "none", NoPath, NoIndex, "unset")
Throw(b, code, path) == Ended(b, "KeeperException", "none", code, path, NoIndex, "unset")
NoResult == Return(Bridged("none", "none", FALSE, FALSE, <<>>), "none")

check_NoNodeAllowed(r, path, value) ==
    IF r.kind # "returned" THEN r
    ELSE IF r.value # ZOK /\ r.value # ZNONODE THEN Throw(r, r.value, path)
    ELSE Return(r, value)

\* static void check(code, path): raises unless the wrapped call returned ZOK.
check(r, path, value) ==
    IF r.kind # "returned" THEN r
    ELSE IF r.value # ZOK THEN Throw(r, r.value, path)
    ELSE Return(r, value)

\* ------------------------------------------------ per-operation wrappers
tryGetChildren(path, status, response) ==
    LET b == getChildrenImpl(path, status, response)
    IN IF ~(b.code = ZOK \/ b.code = ZNONODE) THEN Throw(b, b.code, path)
       ELSE Return(b, b.code)

getChildren(path, status, response) ==
    check(tryGetChildren(path, status, response), path, "children")

tryCreate(path, status, response) ==
    LET b == createImpl(path, status, response)
    IN IF ~(b.code = ZOK \/ b.code = ZNONODE \/ b.code = ZNODEEXISTS
            \/ b.code = ZNOCHILDRENFOREPHEMERALS)
       THEN Throw(b, b.code, path)
       ELSE Return(b, b.code)

create(path, status, response) ==
    check(tryCreate(path, status, response), path, "path_created")

createIfNotExists_ExistsFatal(path, status, response) ==
    LET b == createImpl(path, status, response)
    IN IF b.code = ZOK THEN Return(b, "void")
       ELSE Throw(b, b.code, path)

createIfNotExists(path, status, response) ==
    LET b == createImpl(path, status, response)
    IN IF b.code = ZOK \/ b.code = ZNODEEXISTS THEN Return(b, "void")
       ELSE Throw(b, b.code, path)

tryRemove_SessionExpiredReturned(path, status, response) ==
    LET b == removeImpl(path, status, response)
    IN IF ~(b.code = ZOK \/ b.code = ZNONODE \/ b.code = ZBADVERSION \/ b.code = ZNOTEMPTY
            \/ b.code = ZSESSIONEXPIRED)
       THEN Throw(b, b.code, path)
       ELSE Return(b, b.code)

tryRemove_NotEmptyFatal(path, status, response) ==
    LET b == removeImpl(path, status, response)
    IN IF ~(b.code = ZOK \/ b.code = ZNONODE \/ b.code = ZBADVERSION)
       THEN Throw(b, b.code, path)
       ELSE Return(b, b.code)

tryRemove(path, status, response) ==
    LET b == removeImpl(path, status, response)
    IN IF ~(b.code = ZOK \/ b.code = ZNONODE \/ b.code = ZBADVERSION \/ b.code = ZNOTEMPTY)
       THEN Throw(b, b.code, path)
       ELSE Return(b, b.code)

remove(path, status, response) ==
    check(tryRemove(path, status, response), path, "void")

existsWatch(path, status, response) ==
    LET b == existsImpl(path, status, response)
    IN IF ~(b.code = ZOK \/ b.code = ZNONODE) THEN Throw(b, b.code, path)
       ELSE Return(b, IF b.code # ZNONODE THEN "true" ELSE "false")

exists(path, status, response) == existsWatch(path, status, response)

tryGetWatch_TimeoutIsAbsent(path, status, response) ==
    LET b == getImpl(path, status, response)
    IN IF ~(b.code = ZOK \/ b.code = ZNONODE \/ b.code = ZOPERATIONTIMEOUT)
       THEN Throw(b, b.code, path)
       ELSE [Return(b, IF b.code = ZOK THEN "true" ELSE "false") EXCEPT !.return_code = b.code]

tryGetWatch(path, status, response) ==
    LET b == getImpl(path, status, response)
    IN IF ~(b.code = ZOK \/ b.code = ZNONODE) THEN Throw(b, b.code, path)
       ELSE [Return(b, IF b.code = ZOK THEN "true" ELSE "false") EXCEPT !.return_code = b.code]

tryGet(path, status, response) == tryGetWatch(path, status, response)

get(path, status, response) ==
    LET r == tryGet(path, status, response)
    IN IF r.kind # "returned" THEN r
       ELSE IF r.value = "true" THEN Return(r, "data")
       ELSE Throw(r, r.return_code, path)

trySet_BadVersionFatal(path, status, response) ==
    LET b == setImpl(path, status, response)
    IN IF ~(b.code = ZOK \/ b.code = ZNONODE)
       THEN Throw(b, b.code, path)
       ELSE Return(b, b.code)

trySet(path, status, response) ==
    LET b == setImpl(path, status, response)
    IN IF ~(b.code = ZOK \/ b.code = ZNONODE \/ b.code = ZBADVERSION)
       THEN Throw(b, b.code, path)
       ELSE Return(b, b.code)

set(path, status, response) ==
    check(trySet(path, status, response), path, "void")

\* ------------------------------------------------- transaction wrapper
getFailedOpIndex_LastFailed(exception_code, responses) ==
    IF responses = <<>> THEN NoIndex
    ELSE IF \E i \in 1..Len(responses) : responses[i] # ZOK
    THEN (CHOOSE i \in 1..Len(responses) :
              /\ responses[i] # ZOK
              /\ \A j \in (i + 1)..Len(responses) : responses[j] = ZOK) - 1
    ELSE NoIndex

getFailedOpIndex_DefaultsToFirst(exception_code, responses) ==
    IF \E i \in 1..Len(responses) : responses[i] # ZOK
    THEN (CHOOSE i \in 1..Len(responses) :
              /\ responses[i] # ZOK
              /\ \A j \in 1..(i - 1) : responses[j] = ZOK) - 1
    ELSE 0

\* KeeperMultiException::getFailedOpIndex: the 0-based index of the first
\* response that is not ZOK, or NoIndex when it throws LOGICAL_ERROR.
getFailedOpIndex(exception_code, responses) ==
    IF responses = <<>> THEN NoIndex
    ELSE IF \E i \in 1..Len(responses) : responses[i] # ZOK
    THEN (CHOOSE i \in 1..Len(responses) :
              /\ responses[i] # ZOK
              /\ \A j \in 1..(i - 1) : responses[j] = ZOK) - 1
    ELSE NoIndex

\* KeeperMultiException's constructor: failed_op_index is computed in the
\* member initializers, so a LOGICAL_ERROR raised there replaces the
\* exception under construction.
KeeperMultiException(b, exception_code, requests, responses) ==
    LET failed_op_index == getFailedOpIndex(exception_code, responses)
    IN IF failed_op_index = NoIndex
       THEN Ended(b, "LOGICAL_ERROR", "none", "none", NoPath, NoIndex, "unset")
       ELSE Ended(b, "KeeperMultiException", "none", exception_code,
                  requests[failed_op_index + 1].path, failed_op_index, "unset")

KeeperMultiException_check(b, exception_code, requests, responses) ==
    IF exception_code = ZOK THEN Return(b, "responses")
    ELSE IF isUserError(exception_code)
    THEN KeeperMultiException(b, exception_code, requests, responses)
    ELSE Throw(b, exception_code, NoPath)

multi(requests, status, response) ==
    LET b == multiImpl(requests, status, response)
    IN KeeperMultiException_check(b, b.code, requests, b.responses)

tryMulti_TimeoutReturned(requests, status, response) ==
    LET b == multiImpl(requests, status, response)
    IN IF b.code # ZOK /\ ~isUserError(b.code) /\ b.code # ZOPERATIONTIMEOUT
       THEN Throw(b, b.code, NoPath)
       ELSE Return(b, b.code)

tryMulti(requests, status, response) ==
    LET b == multiImpl(requests, status, response)
    IN IF b.code # ZOK /\ ~isUserError(b.code) THEN Throw(b, b.code, NoPath)
       ELSE Return(b, b.code)

tryMultiNoThrow_RaisesLikeTryMulti(requests, status, response) ==
    IF status = "throw" /\ requests # <<>>
    THEN Return(Bridged(status, response.error, FALSE, FALSE, <<>>), response.error)
    ELSE tryMulti(requests, status, response)

\* tryMultiNoThrow: status "throw" stands for multiImpl leaving with a
\* Coordination::Exception (response.error is its code), which is caught.
tryMultiNoThrow(requests, status, response) ==
    IF status = "throw" /\ requests # <<>>
    THEN Return(Bridged(status, response.error, FALSE, FALSE, <<>>), response.error)
    ELSE LET b == multiImpl(requests, status, response)
         IN Return(b, b.code)

\* ---------------------------------------------------------------- state
VARIABLES
    pc,        \* per thread: "idle", "wait" (blocked in future.wait_for), "done"
    call,      \* per thread: the public operation it runs and its arguments
    elapsed,   \* per thread: ticks spent in the current wait
    promise,   \* per thread: the promise its completion callback fulfils
    result,    \* per thread: how its call ended
    pending,   \* engine: threads whose request is outstanding
    expired,   \* engine: impl->isExpired()
    nodes,     \* server: the nodes that exist
    ver,       \* server: the version of each node
    stack,     \* per thread: the activations of the recursive deletion it is in
    ended,     \* per thread: how its recursive deletion (or its wait) ended
    trace,     \* history: what the running recursive deletion has submitted so far
    wait,      \* waitForDisappear: its position, its WaitForDisappearState, the
               \* caller's condition, and the get requests and watch it has at
               \* the engine and the server
    clients    \* the client handles: a handle and the one startNewSession makes
               \* of it, each with its members and the point its construction
               \* has reached

vars == <<pc, call, elapsed, promise, result, pending, expired, nodes, ver, stack, ended,
          trace, wait, clients>>

PathOps == {"tryCreate", "create", "createIfNotExists", "tryRemove", "remove",
            "existsWatch", "exists", "tryGetWatch", "get", "trySet", "set",
            "tryGetChildren", "getChildren"}
MultiOps == {"multi", "tryMulti", "tryMultiNoThrow"}
Ops == PathOps \cup MultiOps
VersionedOps == {"tryRemove", "remove", "trySet", "set"}
Versions == {AnyVersion} \cup 0..MaxVersion

Call(op, path, version, requests) ==
    [op |-> op, path |-> path, version |-> version, requests |-> requests]
NoCall == Call("none", NoPath, AnyVersion, <<>>)

\* The request an operation submits to the engine.
RequestOf(c) ==
    CASE c.op \in {"tryCreate", "create", "createIfNotExists"} -> Request("Create", c.path, AnyVersion)
      [] c.op \in {"tryRemove", "remove"} -> Request("Remove", c.path, c.version)
      [] c.op \in {"existsWatch", "exists"} -> Request("Exists", c.path, AnyVersion)
      [] c.op \in {"tryGetWatch", "get"} -> Request("Get", c.path, AnyVersion)
      [] c.op \in {"trySet", "set"} -> Request("Set", c.path, c.version)
      [] c.op \in {"tryGetChildren", "getChildren"} -> Request("List", c.path, AnyVersion)
      [] OTHER -> Request("Multi", NoPath, AnyVersion)

\* The public operation c, from the point where its request was submitted
\* and future.wait_for returned status (with the response, when ready).
Dispatch(c, status, response) ==
    CASE c.op = "tryCreate" -> tryCreate(c.path, status, response)
      [] c.op = "create" -> create(c.path, status, response)
      [] c.op = "createIfNotExists" -> createIfNotExists(c.path, status, response)
      [] c.op = "tryRemove" -> tryRemove(c.path, status, response)
      [] c.op = "remove" -> remove(c.path, status, response)
      [] c.op = "existsWatch" -> existsWatch(c.path, status, response)
      [] c.op = "exists" -> exists(c.path, status, response)
      [] c.op = "tryGetWatch" -> tryGetWatch(c.path, status, response)
      [] c.op = "get" -> get(c.path, status, response)
      [] c.op = "trySet" -> trySet(c.path, status, response)
      [] c.op = "set" -> set(c.path, status, response)
      [] c.op = "tryGetChildren" -> tryGetChildren(c.path, status, response)
      [] c.op = "getChildren" -> getChildren(c.path, status, response)
      [] c.op = "multi" -> multi(c.requests, status, response)
      [] c.op = "tryMulti" -> tryMulti(c.requests, status, response)
      [] c.op = "tryMultiNoThrow" -> tryMultiNoThrow(c.requests, status, response)

\* The calls a caller can issue: an operation on a path (with a version
\* where the operation takes one), or a multi of a request list.
PathCalls ==
    { Call(op, path, version, <<>>) :
        op \in VersionedOps, path \in Paths, version \in Versions }
    \cup { Call(op, path, AnyVersion, <<>>) : op \in PathOps \ VersionedOps, path \in Paths }
MultiCalls == { Call(op, NoPath, AnyVersion, requests) : op \in MultiOps, requests \in Batches }
Calls == PathCalls \cup MultiCalls
EmptyMulti(c) == c.op \in MultiOps /\ c.requests = <<>>

\* How a tryRemoveChildrenRecursive ended: kind "returned" with its boolean
\* value, or the exception that left it.
End(kind, value, exc_code, exc_path) ==
    [kind |-> kind, value |-> value, exc_code |-> exc_code, exc_path |-> exc_path]
NoEnd == End("none", "none", "none", NoPath)

\* The history of the last recursive deletion called: the function and its
\* arguments, the tree when it was called, the requests it has submitted (in
\* order, with the depth of the activation that submitted them), the nodes
\* other clients removed meanwhile, and what the outermost activation of
\* tryRemoveChildrenRecursive returned ("none" before it returns, then
\* "true" or "false").
Entry(kind, paths, depth) == [kind |-> kind, paths |-> paths, depth |-> depth]
CallTrace(fn, path, probably_flat, keep_child_node, start) ==
    [fn |-> fn, path |-> path, probably_flat |-> probably_flat,
     keep_child_node |-> keep_child_node,
     start |-> start, sent |-> <<>>, others |-> {}, value |-> "none"]
NoTrace == CallTrace("none", NoPath, FALSE, "", {})

\* ------------------------------------------------------- engine (contract)
\* What finalize hands to a request that was outstanding.
AnsweredByFinalize == Response(ZSESSIONEXPIRED, <<>>, "engine")

\* impl->finalize: the session is terminated for good and every outstanding
\* request is answered ZSESSIONEXPIRED.
FinalizeSession ==
    /\ expired' = TRUE
    /\ promise' = [t \in Threads |->
                     IF t \in pending THEN AnsweredByFinalize ELSE promise[t]]
    /\ pending' = {}
    /\ stack' = [t \in Threads |->
                   [d \in DOMAIN stack[t] |->
                      [stack[t][d] EXCEPT !.futures =
                          [j \in DOMAIN @ |->
                             IF @[j] = NoResponse THEN AnsweredByFinalize ELSE @[j]]]]]

\* The exception a submission on a terminated session leaves with.
SubmitThrows(c) ==
    LET thrown == AnsweredByFinalize
    IN IF c.op = "tryMultiNoThrow"
       THEN tryMultiNoThrow(c.requests, "throw", thrown)
       ELSE Throw(Bridged("throw", "none", FALSE, FALSE, <<>>), thrown.error, NoPath)

\* The server executes an outstanding request and the engine delivers its
\* answer to the completion callback.
ServerExec(t) ==
    /\ t \in pending
    /\ ~expired
    /\ LET req == RequestOf(call[t])
           m == ServerMulti(call[t].requests, nodes, ver)
           a == IF req.kind = "Multi" THEN m ELSE ServerApply(req, nodes, ver)
       IN /\ \A p \in AllPaths : a.ver[p] <= MaxVersion
          /\ promise' = [promise EXCEPT ![t] =
                            IF req.kind = "List" /\ a.error = ZOK
                            THEN ListResponse(ZOK, ChildNames(nodes, req.path), "server")
                            ELSE Response(a.error,
                                          IF req.kind = "Multi" THEN m.responses ELSE <<>>,
                                          "server")]
          /\ nodes' = a.nodes
          /\ ver' = a.ver
    /\ pending' = pending \ {t}
    /\ UNCHANGED <<pc, call, elapsed, result, expired, stack, ended, trace, wait, clients>>

SubCodes == {ZOK, ZBADVERSION}

\* The answers the engine may deliver on its own for call c: any code, and
\* for a multi any list of per-operation codes no longer than the requests.
EngineResponsesOfLen ==
    [n \in 0..MaxOps |->
        { Response(code, rs, "engine") : code \in Codes, rs \in SeqsUpTo(SubCodes, n) }]
EngineResponses(c) == EngineResponsesOfLen[Len(c.requests)]

EngineAnswer(t, response) ==
    /\ t \in pending
    /\ ~expired
    /\ promise' = [promise EXCEPT ![t] = response]
    /\ pending' = pending \ {t}
    /\ UNCHANGED <<pc, call, elapsed, result, expired, nodes, ver, stack, ended, trace, wait, clients>>

\* The session ends on the engine's side (protocol-level expiry).
SessionExpire ==
    /\ ~expired
    /\ FinalizeSession
    /\ UNCHANGED <<pc, call, elapsed, result, nodes, ver, ended, trace, wait, clients>>

\* ------------------------------------------------------- caller threads
\* multiImpl with an empty request list returns before submitting anything.
CallEmptyMulti(t, c) ==
    /\ pc[t] = "idle"
    /\ EmptyMulti(c)
    /\ call' = [call EXCEPT ![t] = c]
    /\ result' = [result EXCEPT ![t] = Dispatch(c, "unsubmitted", NoResponse)]
    /\ pc' = [pc EXCEPT ![t] = "done"]
    /\ UNCHANGED <<elapsed, promise, pending, expired, nodes, ver, stack, ended, trace, wait, clients>>

\* async*NoThrow on a terminated session: the engine's submission throws.
SubmitExpired(t, c) ==
    /\ pc[t] = "idle"
    /\ ~EmptyMulti(c)
    /\ expired
    /\ call' = [call EXCEPT ![t] = c]
    /\ result' = [result EXCEPT ![t] = SubmitThrows(c)]
    /\ pc' = [pc EXCEPT ![t] = "done"]
    /\ UNCHANGED <<elapsed, promise, pending, expired, nodes, ver, stack, ended, trace, wait, clients>>

\* async*NoThrow: the request is handed to the engine with a callback that
\* fulfils the promise; the caller then blocks in future.wait_for.
Submit(t, c) ==
    /\ pc[t] = "idle"
    /\ ~EmptyMulti(c)
    /\ ~expired
    /\ call' = [call EXCEPT ![t] = c]
    /\ pending' = pending \cup {t}
    /\ pc' = [pc EXCEPT ![t] = "wait"]
    /\ UNCHANGED <<elapsed, promise, result, expired, nodes, ver, stack, ended, trace, wait, clients>>

\* ZooKeeper::expired: asks the engine whether the session is terminated;
\* nothing is submitted.
CallExpired(t) ==
    /\ pc[t] = "idle"
    /\ call' = [call EXCEPT ![t] = Call("expired", NoPath, AnyVersion, <<>>)]
    /\ result' = [result EXCEPT ![t] =
                     Return(Bridged("unsubmitted", "none", FALSE, FALSE, <<>>),
                            IF expired THEN "true" ELSE "false")]
    /\ pc' = [pc EXCEPT ![t] = "done"]
    /\ UNCHANGED <<elapsed, promise, pending, expired, nodes, ver, stack, ended, trace, wait, clients>>

\* Time passes for a thread blocked in wait_for(operation_timeout_ms).
Tick(t) ==
    /\ pc[t] = "wait"
    /\ promise[t] = NoResponse
    /\ elapsed[t] < OperationTimeout
    /\ elapsed' = [elapsed EXCEPT ![t] = elapsed[t] + 1]
    /\ UNCHANGED <<pc, call, promise, result, pending, expired, nodes, ver, stack, ended, trace, wait, clients>>

\* wait_for returned: the rest of the operation runs to its end.
Wake(t, status) ==
    LET r == Dispatch(call[t], status, promise[t])
    IN /\ result' = [result EXCEPT ![t] = r]
       /\ pc' = [pc EXCEPT ![t] = "done"]
       /\ IF r.finalize THEN FinalizeSession ELSE UNCHANGED <<promise, pending, expired, stack>>
       /\ UNCHANGED <<call, elapsed, nodes, ver, ended, trace, wait, clients>>

WaitReady(t) ==
    /\ pc[t] = "wait"
    /\ promise[t] # NoResponse
    /\ Wake(t, "ready")

WaitTimeout(t) ==
    /\ pc[t] = "wait"
    /\ promise[t] = NoResponse
    /\ elapsed[t] = OperationTimeout
    /\ Wake(t, "timeout")

\* The caller takes the outcome; the thread is free for its next call.
Forget(t) ==
    /\ pc[t] = "done"
    /\ pc' = [pc EXCEPT ![t] = "idle"]
    /\ call' = [call EXCEPT ![t] = NoCall]
    /\ elapsed' = [elapsed EXCEPT ![t] = 0]
    /\ promise' = [promise EXCEPT ![t] = NoResponse]
    /\ result' = [result EXCEPT ![t] = NoResult]
    /\ UNCHANGED <<pending, expired, nodes, ver, stack, ended, trace, wait, clients>>

\* wait_for returned without the completion: the thread is between the
\* return of wait_for and its call of impl->finalize, and the engine can
\* still deliver the completion to the callback.
DeadlineReached(t) ==
    /\ pc[t] = "wait"
    /\ promise[t] = NoResponse
    /\ elapsed[t] = OperationTimeout
    /\ pc' = [pc EXCEPT ![t] = "timed_out"]
    /\ UNCHANGED <<call, elapsed, promise, result, pending, expired, nodes, ver, stack, ended,
                   trace, wait, clients>>

FinalizeAfterTimeout_TakesLateAnswer(t) ==
    /\ pc[t] = "timed_out"
    /\ LET r == Dispatch(call[t], IF promise[t] # NoResponse THEN "ready" ELSE "timeout",
                         promise[t])
       IN /\ result' = [result EXCEPT ![t] = r]
          /\ pc' = [pc EXCEPT ![t] = "done"]
          /\ FinalizeSession
    /\ UNCHANGED <<call, elapsed, nodes, ver, ended, trace, wait, clients>>

\* The rest of the timeout branch: impl->finalize and the return of
\* ZOPERATIONTIMEOUT; the future is not read.
FinalizeAfterTimeout(t) ==
    /\ pc[t] = "timed_out"
    /\ LET r == Dispatch(call[t], "timeout", promise[t])
       IN /\ result' = [result EXCEPT ![t] = r]
          /\ pc' = [pc EXCEPT ![t] = "done"]
          /\ IF r.finalize THEN FinalizeSession
             ELSE UNCHANGED <<promise, pending, expired, stack>>
    /\ UNCHANGED <<call, elapsed, nodes, ver, ended, trace, wait, clients>>

\* ------------------------------------------- tryRemoveChildrenRecursive
MULTI_BATCH_SIZE == 2

makeRemoveRequest(path, version) == Request("Remove", path, version)

\* One activation of tryRemoveChildrenRecursive: its arguments, its locals
\* (i is the counter of the loop it is in) and the point it has reached.
\* fn is the function activated; listed (the children as they were listed)
\* and batches (the batches sent so far) are history.
FrameOf(fn, path, probably_flat, keep_child_node, at) ==
    [fn |-> fn, path |-> path, probably_flat |-> probably_flat,
     keep_child_node |-> keep_child_node,
     children |-> <<>>, removed_as_expected |-> TRUE, ops |-> <<>>, batch |-> <<>>,
     futures |-> <<>>, i |-> 0, at |-> at, listed |-> <<>>, batches |-> <<>>]

Frame(path, probably_flat, keep_child_node) ==
    FrameOf("tryRemoveChildrenRecursive", path, probably_flat, keep_child_node,
            "tryGetChildren")

Top(t) == stack[t][Len(stack[t])]
SetTop(t, f) == [stack EXCEPT ![t] = [@ EXCEPT ![Len(@)] = f]]
Push(t, caller, f) == [stack EXCEPT ![t] = Append([@ EXCEPT ![Len(@)] = caller], f)]

\* The thread goes on without a bridge call in progress, at position at.
Local(t, at) ==
    /\ pc' = [pc EXCEPT ![t] = at]
    /\ call' = [call EXCEPT ![t] = NoCall]
    /\ elapsed' = [elapsed EXCEPT ![t] = 0]
    /\ promise' = [promise EXCEPT ![t] = NoResponse]
    /\ result' = [result EXCEPT ![t] = NoResult]
    /\ UNCHANGED <<pending, expired, nodes, ver, wait, clients>>

\* The request of call c as the history records it.
SentOf(c, depth) ==
    IF c.op \in MultiOps
    THEN Entry("Multi", [j \in 1..Len(c.requests) |-> c.requests[j].path], depth)
    ELSE Entry(RequestOf(c).kind, <<c.path>>, depth)

\* The thread calls the public operation c from inside the procedure: up to
\* the point where it blocks in the bridge, or to the end of c when nothing
\* is submitted.
IssueFrom(t, c, history) ==
    /\ call' = [call EXCEPT ![t] = c]
    /\ elapsed' = [elapsed EXCEPT ![t] = 0]
    /\ promise' = [promise EXCEPT ![t] = NoResponse]
    /\ IF EmptyMulti(c) \/ expired
       THEN /\ result' = [result EXCEPT ![t] =
                             IF EmptyMulti(c) THEN Dispatch(c, "unsubmitted", NoResponse)
                             ELSE SubmitThrows(c)]
            /\ pc' = [pc EXCEPT ![t] = "done"]
            /\ trace' = history
            /\ UNCHANGED pending
       ELSE /\ result' = [result EXCEPT ![t] = NoResult]
            /\ pc' = [pc EXCEPT ![t] = "wait"]
            /\ pending' = pending \cup {t}
            /\ trace' = [history EXCEPT !.sent = Append(@, SentOf(c, Len(stack'[t])))]
    /\ UNCHANGED <<expired, nodes, ver, wait, clients>>

Issue(t, c) == IssueFrom(t, c, trace)

\* The thread goes on without a call in progress and submits nothing.
Running(t, at) == Local(t, at) /\ UNCHANGED trace

\* An exception leaves the procedure: no activation catches it.
Raise(t, kind, code, path) ==
    /\ stack' = [stack EXCEPT ![t] = <<>>]
    /\ ended' = [ended EXCEPT ![t] = End(kind, "none", code, path)]
    /\ Running(t, "idle")

ForBody_KeepIgnored(f) ==
    LET name == f.children[Len(f.children)]
        child_path == Append(f.path, name)
    IN [f EXCEPT !.batch = Append(@, child_path),
                 !.ops = Append(@, makeRemoveRequest(child_path, AnyVersion)),
                 !.children = SubSeq(@, 1, Len(@) - 1),
                 !.i = @ + 1,
                 !.at = "for"]

\* The rest of one round of the batching loop, after the recursive call.
ForBody(f) ==
    LET name == f.children[Len(f.children)]
        child_path == Append(f.path, name)
        kept == ~(f.keep_child_node = "" \/ f.keep_child_node # name)
    IN [f EXCEPT !.batch = IF kept THEN @ ELSE Append(@, child_path),
                 !.ops = IF kept THEN @ ELSE Append(@, makeRemoveRequest(child_path, AnyVersion)),
                 !.children = SubSeq(@, 1, Len(@) - 1),
                 !.i = @ + 1,
                 !.at = "for"]

\* The top activation returns value to its caller: the caller of the
\* procedure, the loop that recursed (which goes on with its round), the
\* fallback that recursed (which goes on with tryRemove(batch[i])), or
\* removeRecursive and tryRemoveRecursive (which go on with the removal of
\* path itself).
ReturnFrame(t, value) ==
    LET rest == SubSeq(stack[t], 1, Len(stack[t]) - 1)
        caller == rest[Len(rest)]
        outermost == /\ Top(t).fn = "tryRemoveChildrenRecursive"
                     /\ \A d \in 1..Len(rest) : rest[d].fn # "tryRemoveChildrenRecursive"
        history == IF outermost
                   THEN [trace EXCEPT !.value = IF value THEN "true" ELSE "false"]
                   ELSE trace
    IN IF rest = <<>>
       THEN /\ stack' = [stack EXCEPT ![t] = <<>>]
            /\ ended' = [ended EXCEPT ![t] = End("returned", value, "none", NoPath)]
            /\ Local(t, "idle")
            /\ trace' = history
       ELSE IF caller.at = "recurse_for"
       THEN /\ stack' = [stack EXCEPT ![t] = [rest EXCEPT ![Len(rest)] = ForBody(caller)]]
            /\ Running(t, "run")
            /\ UNCHANGED ended
       ELSE IF caller.at = "recurse_get"
       THEN /\ stack' = [stack EXCEPT ![t] = [rest EXCEPT ![Len(rest)].at = "tryRemove"]]
            /\ Issue(t, Call("tryRemove", caller.batch[caller.i + 1], AnyVersion, <<>>))
            /\ UNCHANGED ended
       ELSE /\ stack' = [stack EXCEPT ![t] = [rest EXCEPT ![Len(rest)].at = "remove_path"]]
            /\ IssueFrom(t, Call(IF caller.fn = "removeRecursive" THEN "remove" ELSE "tryRemove",
                                 caller.path, AnyVersion, <<>>), history)
            /\ UNCHANGED ended

\* The call of tryRemoveChildrenRecursive: it lists the children of path.
tryRemoveChildrenRecursive(t, path, probably_flat, keep_child_node) ==
    /\ pc[t] = "idle" /\ stack[t] = <<>> /\ ended[t] = NoEnd
    /\ stack' = [stack EXCEPT ![t] = <<Frame(path, probably_flat, keep_child_node)>>]
    /\ IssueFrom(t, Call("tryGetChildren", path, AnyVersion, <<>>),
                 CallTrace("tryRemoveChildrenRecursive", path, probably_flat,
                           keep_child_node, nodes))
    /\ UNCHANGED ended

AfterTryGetChildren_NoNodeFatal(t) ==
    /\ stack[t] # <<>> /\ Top(t).at = "tryGetChildren" /\ pc[t] = "done"
    /\ LET r == result[t]
       IN IF r.kind # "returned" THEN Raise(t, r.kind, r.exc_code, r.exc_path)
          ELSE IF r.value # ZOK THEN Raise(t, "KeeperException", r.value, Top(t).path)
          ELSE /\ stack' = SetTop(t, [Top(t) EXCEPT !.children = promise[t].names,
                                                    !.listed = promise[t].names,
                                                    !.at = "while"])
               /\ Running(t, "run")
               /\ UNCHANGED ended

\* tryGetChildren is over: anything but ZOK ends the activation.
AfterTryGetChildren(t) ==
    /\ stack[t] # <<>> /\ Top(t).at = "tryGetChildren" /\ pc[t] = "done"
    /\ LET r == result[t]
       IN IF r.kind # "returned" THEN Raise(t, r.kind, r.exc_code, r.exc_path)
          ELSE IF r.value # ZOK THEN ReturnFrame(t, FALSE)
          ELSE /\ stack' = SetTop(t, [Top(t) EXCEPT !.children = promise[t].names,
                                                    !.listed = promise[t].names,
                                                    !.at = "while"])
               /\ Running(t, "run")
               /\ UNCHANGED ended

\* while (!children.empty()): a new batch, or the activation returns.
WhileChildren(t) ==
    /\ stack[t] # <<>> /\ Top(t).at = "while" /\ pc[t] = "run"
    /\ IF Top(t).children = <<>>
       THEN ReturnFrame(t, IF Top(t).fn = "tryRemoveChildrenRecursive"
                           THEN Top(t).removed_as_expected ELSE "void")
       ELSE /\ stack' = SetTop(t, [Top(t) EXCEPT !.ops = <<>>, !.batch = <<>>, !.i = 0,
                                                 !.at = "for"])
            /\ UNCHANGED <<pc, call, elapsed, promise, result, pending, expired, nodes, ver,
                           ended, trace, wait, clients>>

ForBatch_KeepPassedDown(t) ==
    /\ stack[t] # <<>> /\ Top(t).at = "for" /\ pc[t] = "run"
    /\ Top(t).fn = "tryRemoveChildrenRecursive"
    /\ LET f == Top(t)
           child_path == Append(f.path, f.children[Len(f.children)])
       IN IF f.i < MULTI_BATCH_SIZE /\ f.children # <<>>
          THEN IF ~f.probably_flat
               THEN /\ stack' = Push(t, [f EXCEPT !.at = "recurse_for"],
                                     Frame(child_path, FALSE, f.keep_child_node))
                    /\ Issue(t, Call("tryGetChildren", child_path, AnyVersion, <<>>))
                    /\ UNCHANGED ended
               ELSE /\ stack' = SetTop(t, ForBody(f))
                    /\ UNCHANGED <<pc, call, elapsed, promise, result, pending, expired,
                                   nodes, ver, ended, trace, wait, clients>>
          ELSE /\ stack' = SetTop(t, [f EXCEPT !.at = "tryMulti",
                                               !.batches = IF f.batch = <<>> THEN @
                                                           ELSE Append(@, f.batch)])
               /\ Issue(t, Call("tryMulti", NoPath, AnyVersion, f.ops))
               /\ UNCHANGED ended

\* One round of the batching loop, up to the recursive call if there is
\* one; after the last round the batch is sent with tryMulti.
ForBatch(t) ==
    /\ stack[t] # <<>> /\ Top(t).at = "for" /\ pc[t] = "run"
    /\ Top(t).fn = "tryRemoveChildrenRecursive"
    /\ LET f == Top(t)
           child_path == Append(f.path, f.children[Len(f.children)])
       IN IF f.i < MULTI_BATCH_SIZE /\ f.children # <<>>
          THEN IF ~f.probably_flat
               THEN /\ stack' = Push(t, [f EXCEPT !.at = "recurse_for"],
                                     Frame(child_path, FALSE, ""))
                    /\ Issue(t, Call("tryGetChildren", child_path, AnyVersion, <<>>))
                    /\ UNCHANGED ended
               ELSE /\ stack' = SetTop(t, ForBody(f))
                    /\ UNCHANGED <<pc, call, elapsed, promise, result, pending, expired,
                                   nodes, ver, ended, trace, wait, clients>>
          ELSE /\ stack' = SetTop(t, [f EXCEPT !.at = "tryMulti",
                                               !.batches = IF f.batch = <<>> THEN @
                                                           ELSE Append(@, f.batch)])
               /\ Issue(t, Call("tryMulti", NoPath, AnyVersion, f.ops))
               /\ UNCHANGED ended

AfterTryMulti_NoFallback(t) ==
    /\ stack[t] # <<>> /\ Top(t).at = "tryMulti" /\ pc[t] = "done"
    /\ LET r == result[t]
           f == Top(t)
       IN IF r.kind # "returned" THEN Raise(t, r.kind, r.exc_code, r.exc_path)
          ELSE IF r.value = ZOK
          THEN /\ stack' = SetTop(t, [f EXCEPT !.at = "while"])
               /\ Running(t, "run")
               /\ UNCHANGED ended
          ELSE Raise(t, "KeeperException", r.value, NoPath)

\* tryMulti is over: on ZOK the next batch; on a user error every child of
\* the batch is removed with asyncTryRemoveNoThrow, all submitted at once.
AfterTryMulti(t) ==
    /\ stack[t] # <<>> /\ Top(t).at = "tryMulti" /\ pc[t] = "done"
    /\ LET r == result[t]
           f == Top(t)
       IN IF r.kind # "returned" THEN Raise(t, r.kind, r.exc_code, r.exc_path)
          ELSE IF r.value = ZOK
          THEN /\ stack' = SetTop(t, [f EXCEPT !.at = "while"])
               /\ Running(t, "run")
               /\ UNCHANGED ended
          ELSE IF expired
          THEN Raise(t, "KeeperException", AnsweredByFinalize.error, NoPath)
          ELSE /\ stack' = SetTop(t, [f EXCEPT !.removed_as_expected = FALSE,
                                               !.futures = [j \in 1..Len(f.batch) |-> NoResponse],
                                               !.i = 0,
                                               !.at = "get"])
               /\ Local(t, "get")
               /\ trace' = [trace EXCEPT !.sent =
                               @ \o [j \in 1..Len(f.batch) |->
                                       Entry("AsyncRemove", <<f.batch[j]>>, Len(stack[t]))]]
               /\ UNCHANGED ended

\* How long the model follows a thread blocked in futures[i].get().
MaxGetWait == OperationTimeout + 1

\* Time passes for a thread blocked in futures[i].get(), which has no
\* deadline.
FuturesGetBlocked(t) ==
    /\ stack[t] # <<>> /\ Top(t).at = "get" /\ pc[t] = "get"
    /\ Top(t).i < Len(Top(t).batch)
    /\ Top(t).futures[Top(t).i + 1] = NoResponse
    /\ elapsed[t] < MaxGetWait
    /\ elapsed' = [elapsed EXCEPT ![t] = elapsed[t] + 1]
    /\ UNCHANGED <<pc, call, promise, result, pending, expired, nodes, ver, stack, ended, trace, wait, clients>>

FuturesGet_OtherCodesSkipped(t) ==
    /\ stack[t] # <<>> /\ Top(t).at = "get" /\ pc[t] = "get"
    /\ LET f == Top(t)
           res == f.futures[f.i + 1]
           next == [f EXCEPT !.i = @ + 1]
       IN IF f.i >= Len(f.batch)
          THEN /\ stack' = SetTop(t, [f EXCEPT !.at = "while"])
               /\ Running(t, "run")
               /\ UNCHANGED ended
          ELSE /\ res # NoResponse
               /\ IF res.error = ZNOTEMPTY /\ f.probably_flat
                  THEN /\ stack' = Push(t, [f EXCEPT !.at = "recurse_get"],
                                        Frame(f.batch[f.i + 1], FALSE, ""))
                       /\ Issue(t, Call("tryGetChildren", f.batch[f.i + 1], AnyVersion, <<>>))
                       /\ UNCHANGED ended
                  ELSE /\ stack' = SetTop(t, next)
                       /\ Running(t, "get")
                       /\ UNCHANGED ended

\* futures[i].get() returned, or the loop over the batch is over.
FuturesGet(t) ==
    /\ stack[t] # <<>> /\ Top(t).at = "get" /\ pc[t] = "get"
    /\ LET f == Top(t)
           res == f.futures[f.i + 1]
           next == [f EXCEPT !.i = @ + 1]
       IN IF f.i >= Len(f.batch)
          THEN /\ stack' = SetTop(t, [f EXCEPT !.at = "while"])
               /\ Running(t, "run")
               /\ UNCHANGED ended
          ELSE /\ res # NoResponse
               /\ IF res.error = ZOK \/ res.error = ZNONODE
                     \/ (res.error = ZNOTEMPTY /\ ~f.probably_flat)
                  THEN /\ stack' = SetTop(t, next)
                       /\ Running(t, "get")
                       /\ UNCHANGED ended
                  ELSE IF res.error = ZNOTEMPTY
                  THEN /\ stack' = Push(t, [f EXCEPT !.at = "recurse_get"],
                                        Frame(f.batch[f.i + 1], FALSE, ""))
                       /\ Issue(t, Call("tryGetChildren", f.batch[f.i + 1], AnyVersion, <<>>))
                       /\ UNCHANGED ended
                  ELSE Raise(t, "KeeperException", res.error, f.batch[f.i + 1])

\* tryRemove(batch[i]) is over.
AfterTryRemove(t) ==
    /\ stack[t] # <<>> /\ Top(t).at = "tryRemove" /\ pc[t] = "done"
    /\ LET r == result[t]
       IN IF r.kind # "returned" THEN Raise(t, r.kind, r.exc_code, r.exc_path)
          ELSE /\ stack' = SetTop(t, [Top(t) EXCEPT !.i = @ + 1, !.at = "get"])
               /\ Running(t, "get")
               /\ UNCHANGED ended

\* The call of removeChildren: it lists the children of path.
removeChildren(t, path) ==
    /\ pc[t] = "idle" /\ stack[t] = <<>> /\ ended[t] = NoEnd
    /\ stack' = [stack EXCEPT ![t] = <<FrameOf("removeChildren", path, TRUE, "", "getChildren")>>]
    /\ IssueFrom(t, Call("getChildren", path, AnyVersion, <<>>),
                 CallTrace("removeChildren", path, TRUE, "", nodes))
    /\ UNCHANGED ended

\* The call of removeChildrenRecursive: it lists the children of path.
removeChildrenRecursive(t, path, keep_child_node) ==
    /\ pc[t] = "idle" /\ stack[t] = <<>> /\ ended[t] = NoEnd
    /\ stack' = [stack EXCEPT ![t] =
                    <<FrameOf("removeChildrenRecursive", path, FALSE, keep_child_node,
                              "getChildren")>>]
    /\ IssueFrom(t, Call("getChildren", path, AnyVersion, <<>>),
                 CallTrace("removeChildrenRecursive", path, FALSE, keep_child_node, nodes))
    /\ UNCHANGED ended

\* The call of removeRecursive: it calls removeChildrenRecursive(path).
removeRecursive(t, path) ==
    /\ pc[t] = "idle" /\ stack[t] = <<>> /\ ended[t] = NoEnd
    /\ stack' = [stack EXCEPT ![t] =
                    <<FrameOf("removeRecursive", path, FALSE, "", "recurse_children"),
                      FrameOf("removeChildrenRecursive", path, FALSE, "", "getChildren")>>]
    /\ IssueFrom(t, Call("getChildren", path, AnyVersion, <<>>),
                 CallTrace("removeRecursive", path, FALSE, "", nodes))
    /\ UNCHANGED ended

\* The call of tryRemoveRecursive: it calls tryRemoveChildrenRecursive(path).
tryRemoveRecursive(t, path) ==
    /\ pc[t] = "idle" /\ stack[t] = <<>> /\ ended[t] = NoEnd
    /\ stack' = [stack EXCEPT ![t] =
                    <<FrameOf("tryRemoveRecursive", path, FALSE, "", "recurse_children"),
                      Frame(path, FALSE, "")>>]
    /\ IssueFrom(t, Call("tryGetChildren", path, AnyVersion, <<>>),
                 CallTrace("tryRemoveRecursive", path, FALSE, "", nodes))
    /\ UNCHANGED ended

\* getChildren is over: it raised, or the batching loop starts.
AfterGetChildren(t) ==
    /\ stack[t] # <<>> /\ Top(t).at = "getChildren" /\ pc[t] = "done"
    /\ LET r == result[t]
       IN IF r.kind # "returned" THEN Raise(t, r.kind, r.exc_code, r.exc_path)
          ELSE /\ stack' = SetTop(t, [Top(t) EXCEPT !.children = promise[t].names,
                                                    !.listed = promise[t].names,
                                                    !.at = "while"])
               /\ Running(t, "run")
               /\ UNCHANGED ended

ForStrict_NoDescent(t) ==
    /\ stack[t] # <<>> /\ Top(t).at = "for" /\ pc[t] = "run"
    /\ Top(t).fn \in {"removeChildren", "removeChildrenRecursive"}
    /\ LET f == Top(t)
           child_path == Append(f.path, f.children[Len(f.children)])
       IN IF f.i < MULTI_BATCH_SIZE /\ f.children # <<>>
          THEN IF FALSE
               THEN /\ stack' = Push(t, [f EXCEPT !.at = "recurse_for"],
                                     FrameOf("removeChildrenRecursive", child_path, FALSE, "",
                                             "getChildren"))
                    /\ Issue(t, Call("getChildren", child_path, AnyVersion, <<>>))
                    /\ UNCHANGED ended
               ELSE /\ stack' = SetTop(t, ForBody(f))
                    /\ UNCHANGED <<pc, call, elapsed, promise, result, pending, expired,
                                   nodes, ver, ended, trace, wait, clients>>
          ELSE /\ stack' = SetTop(t, [f EXCEPT !.at = "multi",
                                               !.batches = IF f.batch = <<>> THEN @
                                                           ELSE Append(@, f.batch)])
               /\ Issue(t, Call("multi", NoPath, AnyVersion, f.ops))
               /\ UNCHANGED ended

ForStrict_OneTooMany(t) ==
    /\ stack[t] # <<>> /\ Top(t).at = "for" /\ pc[t] = "run"
    /\ Top(t).fn \in {"removeChildren", "removeChildrenRecursive"}
    /\ LET f == Top(t)
           child_path == Append(f.path, f.children[Len(f.children)])
       IN IF f.i <= MULTI_BATCH_SIZE /\ f.children # <<>>
          THEN IF f.fn = "removeChildrenRecursive"
               THEN /\ stack' = Push(t, [f EXCEPT !.at = "recurse_for"],
                                     FrameOf("removeChildrenRecursive", child_path, FALSE, "",
                                             "getChildren"))
                    /\ Issue(t, Call("getChildren", child_path, AnyVersion, <<>>))
                    /\ UNCHANGED ended
               ELSE /\ stack' = SetTop(t, ForBody(f))
                    /\ UNCHANGED <<pc, call, elapsed, promise, result, pending, expired,
                                   nodes, ver, ended, trace, wait, clients>>
          ELSE /\ stack' = SetTop(t, [f EXCEPT !.at = "multi",
                                               !.batches = IF f.batch = <<>> THEN @
                                                           ELSE Append(@, f.batch)])
               /\ Issue(t, Call("multi", NoPath, AnyVersion, f.ops))
               /\ UNCHANGED ended

\* One round of the batching loop of removeChildren (which does not
\* recurse) and of removeChildrenRecursive (which recurses into every
\* child); after the last round the batch is sent with multi.
ForStrict(t) ==
    /\ stack[t] # <<>> /\ Top(t).at = "for" /\ pc[t] = "run"
    /\ Top(t).fn \in {"removeChildren", "removeChildrenRecursive"}
    /\ LET f == Top(t)
           child_path == Append(f.path, f.children[Len(f.children)])
       IN IF f.i < MULTI_BATCH_SIZE /\ f.children # <<>>
          THEN IF f.fn = "removeChildrenRecursive"
               THEN /\ stack' = Push(t, [f EXCEPT !.at = "recurse_for"],
                                     FrameOf("removeChildrenRecursive", child_path, FALSE, "",
                                             "getChildren"))
                    /\ Issue(t, Call("getChildren", child_path, AnyVersion, <<>>))
                    /\ UNCHANGED ended
               ELSE /\ stack' = SetTop(t, ForBody(f))
                    /\ UNCHANGED <<pc, call, elapsed, promise, result, pending, expired,
                                   nodes, ver, ended, trace, wait, clients>>
          ELSE /\ stack' = SetTop(t, [f EXCEPT !.at = "multi",
                                               !.batches = IF f.batch = <<>> THEN @
                                                           ELSE Append(@, f.batch)])
               /\ Issue(t, Call("multi", NoPath, AnyVersion, f.ops))
               /\ UNCHANGED ended

\* multi(ops) is over: it raised, or the next batch.
AfterMulti(t) ==
    /\ stack[t] # <<>> /\ Top(t).at = "multi" /\ pc[t] = "done"
    /\ LET r == result[t]
       IN IF r.kind # "returned" THEN Raise(t, r.kind, r.exc_code, r.exc_path)
          ELSE /\ stack' = SetTop(t, [Top(t) EXCEPT !.at = "while"])
               /\ Running(t, "run")
               /\ UNCHANGED ended

AfterRemovePath_ErrorIgnored(t) ==
    /\ stack[t] # <<>> /\ Top(t).at = "remove_path" /\ pc[t] = "done"
    /\ ReturnFrame(t, "void")

\* remove(path) of removeRecursive, or tryRemove(path) of
\* tryRemoveRecursive, is over.
AfterRemovePath(t) ==
    /\ stack[t] # <<>> /\ Top(t).at = "remove_path" /\ pc[t] = "done"
    /\ LET r == result[t]
       IN IF r.kind # "returned" THEN Raise(t, r.kind, r.exc_code, r.exc_path)
          ELSE ReturnFrame(t, "void")

\* The caller takes the outcome of the recursive deletion.
TakeOutcome(t) ==
    /\ ended[t] # NoEnd
    /\ ended' = [ended EXCEPT ![t] = NoEnd]
    /\ UNCHANGED <<pc, call, elapsed, promise, result, pending, expired, nodes, ver, stack,
                   trace, wait, clients>>

\* The server executes the removal behind future j of activation d and the
\* engine fulfils the future.
ServerExecFuture(t, d, j) ==
    /\ ~expired
    /\ d \in DOMAIN stack[t]
    /\ j \in DOMAIN stack[t][d].futures
    /\ stack[t][d].futures[j] = NoResponse
    /\ LET a == ServerApply(makeRemoveRequest(stack[t][d].batch[j], AnyVersion), nodes, ver)
       IN /\ stack' = [stack EXCEPT ![t][d].futures[j] = Response(a.error, <<>>, "server")]
          /\ nodes' = a.nodes
          /\ ver' = a.ver
    /\ UNCHANGED <<pc, call, elapsed, promise, result, pending, expired, ended, trace, wait, clients>>

\* Another client of the same server removes a node without children.
OtherClientRemoves(p) ==
    /\ p \in nodes
    /\ ~HasChildren(nodes, p)
    /\ nodes' = nodes \ {p}
    /\ ver' = [ver EXCEPT ![p] = 0]
    /\ trace' = [trace EXCEPT !.others = @ \cup {p}]
    /\ UNCHANGED <<pc, call, elapsed, promise, result, pending, expired, stack, ended, wait, clients>>

\* ------------------------------------------------------- createOrUpdate
\* Another client of the same server creates a node whose parent exists.
OtherClientCreates(p) ==
    /\ p \notin nodes
    /\ Parent(p) = Root \/ Parent(p) \in nodes
    /\ nodes' = nodes \cup {p}
    /\ ver' = [ver EXCEPT ![p] = 0]
    /\ UNCHANGED <<pc, call, elapsed, promise, result, pending, expired, stack, ended, trace,
                   wait, clients>>

\* The call of createOrUpdate: it starts with trySet(path, data, -1).
createOrUpdate(t, path) ==
    /\ pc[t] = "idle" /\ stack[t] = <<>> /\ ended[t] = NoEnd
    /\ stack' = [stack EXCEPT ![t] = <<FrameOf("createOrUpdate", path, FALSE, "", "trySet")>>]
    /\ IssueFrom(t, Call("trySet", path, AnyVersion, <<>>),
                 CallTrace("createOrUpdate", path, FALSE, "", nodes))
    /\ UNCHANGED ended

AfterTrySet_OtherCodesReturned(t) ==
    /\ stack[t] # <<>> /\ Top(t).at = "trySet" /\ pc[t] = "done"
    /\ LET r == result[t]
       IN IF r.kind # "returned" THEN Raise(t, r.kind, r.exc_code, r.exc_path)
          ELSE IF r.value = ZNONODE
          THEN /\ stack' = SetTop(t, [Top(t) EXCEPT !.at = "create"])
               /\ Issue(t, Call("create", Top(t).path, AnyVersion, <<>>))
               /\ UNCHANGED ended
          ELSE ReturnFrame(t, "void")

\* trySet is over: on ZNONODE the node is created, any other code but ZOK
\* is thrown.
AfterTrySet(t) ==
    /\ stack[t] # <<>> /\ Top(t).at = "trySet" /\ pc[t] = "done"
    /\ LET r == result[t]
       IN IF r.kind # "returned" THEN Raise(t, r.kind, r.exc_code, r.exc_path)
          ELSE IF r.value = ZNONODE
          THEN /\ stack' = SetTop(t, [Top(t) EXCEPT !.at = "create"])
               /\ Issue(t, Call("create", Top(t).path, AnyVersion, <<>>))
               /\ UNCHANGED ended
          ELSE IF r.value # ZOK THEN Raise(t, "KeeperException", r.value, Top(t).path)
          ELSE ReturnFrame(t, "void")

\* create(path, data, mode) of createOrUpdate is over.
AfterCreate(t) ==
    /\ stack[t] # <<>> /\ Top(t).at = "create" /\ pc[t] = "done"
    /\ LET r == result[t]
       IN IF r.kind # "returned" THEN Raise(t, r.kind, r.exc_code, r.exc_path)
          ELSE ReturnFrame(t, "void")

\* ------------------------------------------------------- createAncestors
\* The path handed to createAncestors is the sequence of its characters.
Slash == "/"
npos == 0 - 1

\* std::string::find(ch, pos): the position (from 0) of the first ch at or
\* after pos, or npos.
find(s, ch, pos) ==
    IF \E k \in pos..(Len(s) - 1) : s[k + 1] = ch
    THEN CHOOSE k \in pos..(Len(s) - 1) :
             s[k + 1] = ch /\ \A j \in pos..(k - 1) : s[j + 1] # ch
    ELSE npos

\* std::string::substr(pos, n).
substr(s, pos, n) == SubSeq(s, pos + 1, pos + n)

\* What the server takes for a path that is no node path.
BadPath == <<Slash>>

\* The node a path string names: "/" is the root, "/a/b" the node b of a
\* (names have one character); a string of another form names no node.
NodePath(s) ==
    IF s = <<Slash>> THEN Root
    ELSE IF /\ Len(s) > 0
            /\ Len(s) % 2 = 0
            /\ \A k \in 1..Len(s) : (s[k] = Slash) <=> (k % 2 = 1)
    THEN [j \in 1..(Len(s) \div 2) |-> s[2 * j]]
    ELSE BadPath

\* The call of createAncestors: the search starts at position 1.
createAncestors(t, path) ==
    /\ pc[t] = "idle" /\ stack[t] = <<>> /\ ended[t] = NoEnd
    /\ stack' = [stack EXCEPT ![t] =
                    <<[FrameOf("createAncestors", path, FALSE, "", "find") EXCEPT !.i = 1]>>]
    /\ Local(t, "run")
    /\ trace' = CallTrace("createAncestors", path, FALSE, "", nodes)
    /\ UNCHANGED ended

\* One round of the loop: the next '/' ends the prefix to create, or there
\* is none and createAncestors returns. batches is the history of the
\* prefixes handed to createIfNotExists.
FindSlash(t) ==
    /\ stack[t] # <<>> /\ Top(t).at = "find" /\ pc[t] = "run"
    /\ LET f == Top(t)
           pos == find(f.path, Slash, f.i)
           prefix == substr(f.path, 0, pos)
       IN IF pos = npos THEN ReturnFrame(t, "void")
          ELSE /\ stack' = SetTop(t, [f EXCEPT !.i = pos,
                                               !.at = "createIfNotExists",
                                               !.batches = Append(@, prefix)])
               /\ Issue(t, Call("createIfNotExists", NodePath(prefix), AnyVersion, <<>>))
               /\ UNCHANGED ended

\* createIfNotExists is over: it threw, or the search goes on behind the '/'.
AfterCreateIfNotExists(t) ==
    /\ stack[t] # <<>> /\ Top(t).at = "createIfNotExists" /\ pc[t] = "done"
    /\ LET r == result[t]
       IN IF r.kind # "returned" THEN Raise(t, r.kind, r.exc_code, r.exc_path)
          ELSE /\ stack' = SetTop(t, [Top(t) EXCEPT !.i = @ + 1, !.at = "find"])
               /\ Running(t, "run")
               /\ UNCHANGED ended

\* ------------------------------------------------------- waitForDisappear
\* How many get requests of one call the model follows on their way to the
\* server, and how many answers and watch events on their way back.
MaxOutstanding == 2
MaxQueue == 2

\* Coordination::Event types a watch delivers.
CHANGED == "CHANGED"
DELETED == "DELETED"
SESSION == "SESSION"
NoEvent == "none"

\* What the engine delivers: the response of a get to callback, or a watch
\* response to watch.
GetResponse(error) == [to |-> "callback", error |-> error, type |-> NoEvent]
WatchResponse(error, type) == [to |-> "watch", error |-> error, type |-> type]

\* WaitForDisappearState (code, event_type, event) of the call in progress,
\* the position of the call (at), its arguments (path, condition: whether a
\* condition was given), what the caller's condition() returns now (stop) and
\* what it returned when the loop last called it (evaluated); outstanding get
\* requests, whether the server holds the watch, and the responses the
\* engine has yet to deliver, in order.  Two history fields record what has
\* happened since the call began: issued, whether impl->get has submitted a
\* request, and gone, whether callback was handed a ZNONODE answer or watch a
\* DELETED event.
WaitState(at, path, condition, stop) ==
    [at |-> at, path |-> path, condition |-> condition, stop |-> stop,
     evaluated |-> "none",
     code |-> ZOK, event_type |-> NoEvent, event |-> FALSE,
     outstanding |-> 0, watched |-> FALSE, queue |-> <<>>,
     issued |-> FALSE, gone |-> FALSE]
NoWait == WaitState("idle", NoPath, FALSE, FALSE)

\* What only the waiter's own steps leave alone.
WaiterFrame(t) ==
    /\ pc[t] = "idle" /\ stack[t] = <<>>
    /\ UNCHANGED <<pc, call, elapsed, promise, result, pending, expired, nodes, ver, stack,
                   trace, clients>>

\* The call is over: its state object is dropped, and so are the responses
\* still to come for it.
WaitOver(t, end) ==
    /\ ended' = [ended EXCEPT ![t] = end]
    /\ wait' = [wait EXCEPT !.at = "idle", !.outstanding = 0, !.watched = FALSE,
                            !.queue = <<>>]

\* The call of waitForDisappear: a new state, code = 0, event_type = 0.
waitForDisappear(t, path, condition, stop) ==
    /\ WaiterFrame(t)
    /\ ended[t] = NoEnd /\ wait.at = "idle"
    /\ wait' = WaitState("get", path, condition, stop)
    /\ UNCHANGED ended

\* impl->get(path, callback, watch): the request is submitted, or the
\* expired session refuses it with an exception.
WaitGet(t) ==
    /\ WaiterFrame(t)
    /\ wait.at = "get"
    /\ IF expired
       THEN WaitOver(t, End("KeeperException", "none", AnsweredByFinalize.error, NoPath))
       ELSE /\ wait.outstanding < MaxOutstanding
            /\ wait' = [wait EXCEPT !.outstanding = @ + 1, !.at = "tryWait",
                                    !.issued = TRUE]
            /\ UNCHANGED ended

\* state->event.tryWait(1000) returns true: the event was set (and resets).
TryWait(t) ==
    /\ WaiterFrame(t)
    /\ wait.at = "tryWait" /\ wait.event
    /\ wait' = [wait EXCEPT !.event = FALSE, !.at = "check_nonode"]
    /\ UNCHANGED ended

\* state->event.tryWait(1000) returns false after a second: continue.
TryWaitTimeout(t) ==
    /\ WaiterFrame(t)
    /\ wait.at = "tryWait" /\ ~wait.event
    /\ wait' = [wait EXCEPT !.at = "condition"]
    /\ UNCHANGED ended

\* if (state->code == ZNONODE) return true;
CheckNoNode(t) ==
    /\ WaiterFrame(t)
    /\ wait.at = "check_nonode"
    /\ IF wait.code = ZNONODE
       THEN WaitOver(t, End("returned", TRUE, "none", NoPath))
       ELSE wait' = [wait EXCEPT !.at = "check_code"] /\ UNCHANGED ended

\* if (state->code) ...: a second read of the atomic code.
CheckCode(t) ==
    /\ WaiterFrame(t)
    /\ wait.at = "check_code"
    /\ wait' = [wait EXCEPT !.at = IF wait.code # ZOK THEN "throw" ELSE "check_type"]
    /\ UNCHANGED ended

\* throw KeeperException(state->code.load(), path): a third read.
ThrowCode(t) ==
    /\ WaiterFrame(t)
    /\ wait.at = "throw"
    /\ WaitOver(t, End("KeeperException", "none", wait.code, wait.path))

CheckType_AnyEventType(t) ==
    /\ WaiterFrame(t)
    /\ wait.at = "check_type"
    /\ IF wait.event_type # NoEvent
       THEN WaitOver(t, End("returned", TRUE, "none", NoPath))
       ELSE wait' = [wait EXCEPT !.at = "condition"] /\ UNCHANGED ended

\* if (state->event_type == DELETED) return true;
CheckType(t) ==
    /\ WaiterFrame(t)
    /\ wait.at = "check_type"
    /\ IF wait.event_type = DELETED
       THEN WaitOver(t, End("returned", TRUE, "none", NoPath))
       ELSE wait' = [wait EXCEPT !.at = "condition"] /\ UNCHANGED ended

\* while (!condition || !condition()); return false;
WhileCondition(t) ==
    /\ WaiterFrame(t)
    /\ wait.at = "condition"
    /\ IF ~wait.condition
       THEN wait' = [wait EXCEPT !.at = "get"] /\ UNCHANGED ended
       ELSE IF ~wait.stop
       THEN wait' = [wait EXCEPT !.evaluated = "false", !.at = "get"] /\ UNCHANGED ended
       ELSE /\ ended' = [ended EXCEPT ![t] = End("returned", FALSE, "none", NoPath)]
            /\ wait' = [wait EXCEPT !.evaluated = "true", !.at = "idle", !.outstanding = 0,
                                    !.watched = FALSE, !.queue = <<>>]

\* The engine delivers the next response: to callback, which stores the
\* code and sets the event when it is not 0; or to watch, which does
\* nothing unless the code is 0.
Deliver ==
    /\ wait.queue # <<>>
    /\ LET m == Head(wait.queue)
           code == IF m.to = "callback" \/ wait.code = ZOK THEN m.error ELSE wait.code
       IN wait' = [wait EXCEPT
                     !.queue = Tail(@),
                     !.code = code,
                     !.event_type = IF m.to = "watch" /\ wait.code = ZOK /\ code = ZOK
                                    THEN m.type ELSE @,
                     !.event = IF m.to = "callback" THEN @ \/ code # ZOK
                               ELSE @ \/ wait.code = ZOK,
                     !.gone = \/ @
                              \/ m.to = "callback" /\ m.error = ZNONODE
                              \/ m.to = "watch" /\ m.type = DELETED]
    /\ UNCHANGED <<pc, call, elapsed, promise, result, pending, expired, nodes, ver, stack,
                   ended, trace, clients>>

\* The server executes an outstanding get: it answers, and leaves a watch
\* on the node when the node exists.
ServerGet ==
    /\ ~expired
    /\ wait.outstanding > 0
    /\ Len(wait.queue) < MaxQueue
    /\ LET error == IF wait.path \in nodes THEN ZOK ELSE ZNONODE
       IN wait' = [wait EXCEPT !.outstanding = @ - 1,
                               !.watched = @ \/ error = ZOK,
                               !.queue = Append(@, GetResponse(error))]
    /\ UNCHANGED <<pc, call, elapsed, promise, result, pending, expired, nodes, ver, stack,
                   ended, trace, clients>>

\* The watch the server holds on path fires once, with event type.
Fired(p, type) ==
    IF wait.watched /\ p = wait.path
    THEN [wait EXCEPT !.watched = FALSE, !.queue = Append(@, WatchResponse(ZOK, type))]
    ELSE wait

\* Another client of the same server deletes a node without children.
OtherClientDeletes(p) ==
    /\ ~expired
    /\ p \in nodes
    /\ ~HasChildren(nodes, p)
    /\ Len(wait.queue) < MaxQueue
    /\ nodes' = nodes \ {p}
    /\ ver' = [ver EXCEPT ![p] = 0]
    /\ wait' = Fired(p, DELETED)
    /\ UNCHANGED <<pc, call, elapsed, promise, result, pending, expired, stack, ended, trace, clients>>

\* Another client of the same server sets the data of a node.
OtherClientSets(p) ==
    /\ ~expired
    /\ p \in nodes
    /\ ver[p] < MaxVersion
    /\ Len(wait.queue) < MaxQueue
    /\ ver' = [ver EXCEPT ![p] = @ + 1]
    /\ wait' = Fired(p, CHANGED)
    /\ UNCHANGED <<pc, call, elapsed, promise, result, pending, expired, nodes, stack, ended,
                   trace, clients>>

\* The session ends: the engine answers every outstanding get and then the
\* watch with ZSESSIONEXPIRED.
WaitSessionExpires ==
    /\ ~expired
    /\ wait.at # "idle"
    /\ expired' = TRUE
    /\ wait' = [wait EXCEPT
                  !.outstanding = 0,
                  !.watched = FALSE,
                  !.queue = @ \o [j \in 1..wait.outstanding |->
                                    GetResponse(AnsweredByFinalize.error)]
                              \o (IF wait.watched
                                  THEN <<WatchResponse(AnsweredByFinalize.error, SESSION)>>
                                  ELSE <<>>)]
    /\ UNCHANGED <<pc, call, elapsed, promise, result, pending, nodes, ver, stack, ended, trace, clients>>

\* The value the caller's condition would return changes.
ConditionChanges ==
    /\ wait.at # "idle"
    /\ wait.condition
    /\ wait' = [wait EXCEPT !.stop = ~@]
    /\ UNCHANGED <<pc, call, elapsed, promise, result, pending, expired, nodes, ver, stack,
                   ended, trace, clients>>

\* ------------------------------------------------------- construction
\* The random values ShuffleHost::randomize draws are 0..MaxRandom.
MaxRandom == 1

\* A host is the sequence of the parts of its string: the secure-transport
\* marker, when it has one, and "name:port". A host string, a chroot and a
\* configured root are sequences of characters.
SecureMarker == "secure://"
Comma == ","

Handles == {"original", "new"}

\* What a handle holds while none is constructed in its place. The field
\* resolutions is the history of how the resolution of each shuffled host
\* ended, and made records that the engine's session was created.
NoImpl == [kind |-> "none"]
NoError == [kind |-> "none", code |-> "none"]
NoFuture == [status |-> "none", error |-> "none"]
NoClient ==
    [at |-> "none", ctor |-> "none",
     hosts |-> <<>>, identity |-> "", session_timeout_ms |-> 0, operation_timeout_ms |-> 0,
     chroot |-> <<>>, implementation |-> "", get_priority_load_balancing |-> "",
     shuffled_hosts |-> <<>>, i |-> 0, nodes |-> <<>>, dns_error |-> FALSE, resolutions |-> <<>>,
     impl |-> NoImpl, made |-> FALSE, future |-> NoFuture, elapsed |-> 0, error |-> NoError]

\* The construction of handle c has failed with an exception.
Failed(c, kind, code) ==
    [c EXCEPT !.at = "failed", !.error = [kind |-> kind, code |-> code], !.impl = NoImpl]

\* GetPriorityForLoadBalancing::getPriorityFunc: no function for the policy
\* without preference (RANDOM), the index of the host for IN_ORDER, and the
\* first host before all others for FIRST_OR_RANDOM.
HasPriorityFunc(load_balancing) == load_balancing # "RANDOM"
get_priority(load_balancing, index) ==
    IF load_balancing = "IN_ORDER" THEN index
    ELSE IF index = 0 THEN 0 ELSE 1

\* ShuffleHost, with the default priority of a host no function ranks.
ShuffleHost(host, priority, random) == [host |-> host, priority |-> priority, random |-> random]
DefaultPriority == 0
compare(lhs, rhs) ==
    \/ lhs.priority < rhs.priority
    \/ lhs.priority = rhs.priority /\ lhs.random < rhs.random

\* The end of init: with a chroot, asyncExists("/") is submitted and init
\* waits for it; without one, the handle is built.
RootCheck(c) ==
    IF c.chroot # <<>>
    THEN [c EXCEPT !.at = "wait_for", !.future = NoFuture, !.elapsed = 0]
    ELSE [c EXCEPT !.at = "built"]

\* ZooKeeper::init up to the call of shuffleHosts (implementation
\* "zookeeper"), or to its end.
init(ctor, implementation_, hosts_, identity_, session_timeout_ms_, operation_timeout_ms_, chroot_, get_priority_load_balancing_) ==
    LET c == [NoClient EXCEPT !.ctor = ctor,
                              !.hosts = hosts_,
                              !.identity = identity_,
                              !.session_timeout_ms = session_timeout_ms_,
                              !.operation_timeout_ms = operation_timeout_ms_,
                              !.chroot = chroot_,
                              !.implementation = implementation_,
                              !.get_priority_load_balancing = get_priority_load_balancing_]
    IN IF implementation_ = "zookeeper"
       THEN IF hosts_ = <<>> THEN Failed(c, "KeeperException", ZBADARGUMENTS)
            ELSE [c EXCEPT !.at = "shuffleHosts"]
       ELSE IF implementation_ = "testkeeper"
       THEN RootCheck([c EXCEPT !.made = TRUE,
                                !.impl = [kind |-> "testkeeper", nodes |-> <<>>,
                                          chroot |-> chroot_, auth_scheme |-> "",
                                          identity |-> "", session_timeout_ms |-> 0,
                                          operation_timeout_ms |-> operation_timeout_ms_,
                                          expired |-> FALSE]])
       ELSE Failed(c, "DB::Exception", "NOT_IMPLEMENTED")

\* splitInto<','>: the parts of a string between the separators.
RECURSIVE splitInto(_, _)
splitInto(what, separator) ==
    IF what = <<>> THEN <<>>
    ELSE LET pos == find(what, separator, 0)
         IN IF pos = npos THEN <<what>>
            ELSE <<substr(what, 0, pos)>> \o splitInto(SubSeq(what, pos + 2, Len(what)), separator)

\* The constructor that takes the list of hosts.
ZooKeeper_Strings(h, a) ==
    /\ clients[h].at = "none"
    /\ clients' = [clients EXCEPT ![h] =
                      init("Strings", a.implementation, a.hosts, a.identity,
                           a.session_timeout_ms, a.operation_timeout_ms, a.chroot,
                           a.get_priority_load_balancing)]
    /\ UNCHANGED <<pc, call, elapsed, promise, result, pending, expired, nodes, ver, stack,
                   ended, trace, wait>>

\* The constructor that takes the hosts in one comma-separated string.
ZooKeeper_string(h, a) ==
    /\ clients[h].at = "none"
    /\ clients' = [clients EXCEPT ![h] =
                      init("string", a.implementation, splitInto(a.hosts_string, Comma),
                           a.identity, a.session_timeout_ms, a.operation_timeout_ms, a.chroot,
                           a.get_priority_load_balancing)]
    /\ UNCHANGED <<pc, call, elapsed, promise, result, pending, expired, nodes, ver, stack,
                   ended, trace, wait>>

\* ZooKeeperArgs: the arguments read from a configuration (its node keys,
\* identity, session_timeout_ms, root, implementation and
\* zookeeper_load_balancing), or the exception it throws.
ZooKeeperArgs(config) ==
    LET hosts == [k \in 1..Len(config.node) |->
                     IF config.node[k].secure
                     THEN <<SecureMarker, config.node[k].host>>
                     ELSE <<config.node[k].host>>]
        root == config.root
        args == [error |-> NoError, hosts |-> hosts, identity |-> config.identity,
                 session_timeout_ms |-> config.session_timeout_ms,
                 operation_timeout_ms |-> config.operation_timeout_ms,
                 chroot |-> root, implementation |-> config.implementation,
                 get_priority_load_balancing |-> config.zookeeper_load_balancing]
    IN IF root # <<>>
       THEN IF root[1] # Slash
            THEN [args EXCEPT !.error = [kind |-> "KeeperException", code |-> ZBADARGUMENTS]]
            ELSE IF root[Len(root)] = Slash
            THEN [args EXCEPT !.chroot = SubSeq(root, 1, Len(root) - 1)]
            ELSE args
       ELSE args

\* The constructor that takes a configuration.
ZooKeeper_config(h, config) ==
    /\ clients[h].at = "none"
    /\ LET args == ZooKeeperArgs(config)
       IN clients' = [clients EXCEPT ![h] =
             IF args.error # NoError
             THEN Failed([NoClient EXCEPT !.ctor = "config"], args.error.kind, args.error.code)
             ELSE init("config", args.implementation, args.hosts, args.identity,
                       args.session_timeout_ms, args.operation_timeout_ms, args.chroot,
                       args.get_priority_load_balancing)]
    /\ UNCHANGED <<pc, call, elapsed, promise, result, pending, expired, nodes, ver, stack,
                   ended, trace, wait>>

\* The orders of n elements.
Orders(n) == Permutations(1..n)

shuffleHosts_NotSorted(h) ==
    /\ clients[h].at = "shuffleHosts"
    /\ LET c == clients[h]
           n == Len(c.hosts)
       IN \E randoms \in [1..n -> 0..MaxRandom], order \in Orders(n) :
             LET shuffle_hosts ==
                     [k \in 1..n |->
                         ShuffleHost(c.hosts[k],
                                     IF HasPriorityFunc(c.get_priority_load_balancing)
                                     THEN get_priority(c.get_priority_load_balancing, k - 1)
                                     ELSE DefaultPriority,
                                     randoms[k])]
                 sorted == [k \in 1..n |-> shuffle_hosts[order[k]]]
             IN clients' = [clients EXCEPT ![h] =
                               [c EXCEPT !.shuffled_hosts = sorted, !.i = 1, !.at = "resolve"]]
    /\ UNCHANGED <<pc, call, elapsed, promise, result, pending, expired, nodes, ver, stack,
                   ended, trace, wait>>

\* shuffleHosts: every host gets its priority and a random value, and
\* std::sort orders them with ShuffleHost::compare: in the result no host
\* compares less than one before it (hosts that compare equal come in any
\* order).
shuffleHosts(h) ==
    /\ clients[h].at = "shuffleHosts"
    /\ LET c == clients[h]
           n == Len(c.hosts)
       IN \E randoms \in [1..n -> 0..MaxRandom], order \in Orders(n) :
             LET shuffle_hosts ==
                     [k \in 1..n |->
                         ShuffleHost(c.hosts[k],
                                     IF HasPriorityFunc(c.get_priority_load_balancing)
                                     THEN get_priority(c.get_priority_load_balancing, k - 1)
                                     ELSE DefaultPriority,
                                     randoms[k])]
                 sorted == [k \in 1..n |-> shuffle_hosts[order[k]]]
             IN /\ \A j \in 1..n : \A k \in 1..(j - 1) : ~compare(sorted[j], sorted[k])
                /\ clients' = [clients EXCEPT ![h] =
                                  [c EXCEPT !.shuffled_hosts = sorted, !.i = 1, !.at = "resolve"]]
    /\ UNCHANGED <<pc, call, elapsed, promise, result, pending, expired, nodes, ver, stack,
                   ended, trace, wait>>

\* How the resolution of a host's address can end.
Resolutions == {"resolved", "HostNotFoundException", "DNSException"}

\* One round of the loop over the shuffled hosts: the marker is stripped,
\* and the host is added to nodes unless its resolution throws.
ResolveHost(h, resolution) ==
    /\ clients[h].at = "resolve"
    /\ clients[h].i <= Len(clients[h].shuffled_hosts)
    /\ LET c == clients[h]
           host_string == c.shuffled_hosts[c.i].host
           secure == host_string[1] = SecureMarker
           stripped == IF secure THEN Tail(host_string) ELSE host_string
           next == [c EXCEPT !.shuffled_hosts[c.i].host = stripped, !.i = @ + 1,
                             !.resolutions = Append(@, resolution)]
       IN clients' = [clients EXCEPT ![h] =
             IF resolution = "resolved"
             THEN [next EXCEPT !.nodes = Append(@, [address |-> stripped, secure |-> secure])]
             ELSE IF resolution = "HostNotFoundException" THEN next
             ELSE [next EXCEPT !.dns_error = TRUE]]
    /\ UNCHANGED <<pc, call, elapsed, promise, result, pending, expired, nodes, ver, stack,
                   ended, trace, wait>>

MakeImpl_DnsErrorForgotten(h) ==
    /\ clients[h].at = "resolve"
    /\ clients[h].i > Len(clients[h].shuffled_hosts)
    /\ LET c == clients[h]
       IN clients' = [clients EXCEPT ![h] =
             IF c.nodes = <<>>
             THEN Failed(c, "KeeperException", ZBADARGUMENTS)
             ELSE RootCheck([c EXCEPT !.made = TRUE,
                                      !.impl = [kind |-> "zookeeper", nodes |-> c.nodes,
                                                chroot |-> c.chroot,
                                                auth_scheme |-> IF c.identity = "" THEN ""
                                                                ELSE "digest",
                                                identity |-> c.identity,
                                                session_timeout_ms |-> c.session_timeout_ms,
                                                operation_timeout_ms |-> c.operation_timeout_ms,
                                                expired |-> FALSE]])]
    /\ UNCHANGED <<pc, call, elapsed, promise, result, pending, expired, nodes, ver, stack,
                   ended, trace, wait>>

\* The loop is over: without a node init throws, otherwise the engine is
\* made with the nodes and the root check follows.
MakeImpl(h) ==
    /\ clients[h].at = "resolve"
    /\ clients[h].i > Len(clients[h].shuffled_hosts)
    /\ LET c == clients[h]
       IN clients' = [clients EXCEPT ![h] =
             IF c.nodes = <<>>
             THEN Failed(c, "KeeperException",
                         IF c.dns_error THEN ZCONNECTIONLOSS ELSE ZBADARGUMENTS)
             ELSE RootCheck([c EXCEPT !.made = TRUE,
                                      !.impl = [kind |-> "zookeeper", nodes |-> c.nodes,
                                                chroot |-> c.chroot,
                                                auth_scheme |-> IF c.identity = "" THEN ""
                                                                ELSE "digest",
                                                identity |-> c.identity,
                                                session_timeout_ms |-> c.session_timeout_ms,
                                                operation_timeout_ms |-> c.operation_timeout_ms,
                                                expired |-> FALSE]])]
    /\ UNCHANGED <<pc, call, elapsed, promise, result, pending, expired, nodes, ver, stack,
                   ended, trace, wait>>

\* The engine answers the existence check: the callback of asyncExists sets
\* an exception unless the code is ZOK or ZNONODE.
RootAnswer(h, code) ==
    /\ clients[h].at = "wait_for"
    /\ clients[h].future = NoFuture
    /\ clients' = [clients EXCEPT ![h].future =
                      [status |-> IF code # ZOK /\ code # ZNONODE THEN "exception" ELSE "value",
                       error |-> code]]
    /\ UNCHANGED <<pc, call, elapsed, promise, result, pending, expired, nodes, ver, stack,
                   ended, trace, wait>>

\* Time passes in future.wait_for(operation_timeout_ms).
RootTick(h) ==
    /\ clients[h].at = "wait_for"
    /\ clients[h].future = NoFuture
    /\ clients[h].elapsed < OperationTimeout
    /\ clients' = [clients EXCEPT ![h].elapsed = @ + 1]
    /\ UNCHANGED <<pc, call, elapsed, promise, result, pending, expired, nodes, ver, stack,
                   ended, trace, wait>>

RootWaitOver_NoNodeAccepted(h) ==
    /\ clients[h].at = "wait_for"
    /\ clients[h].future # NoFuture \/ clients[h].elapsed = OperationTimeout
    /\ LET c == clients[h]
           code == c.future.error
       IN clients' = [clients EXCEPT ![h] =
             IF c.future = NoFuture THEN Failed(c, "KeeperException", ZOPERATIONTIMEOUT)
             ELSE IF c.future.status = "exception" THEN Failed(c, "KeeperException", code)
             ELSE IF ~(code = ZOK \/ code = ZNONODE) THEN Failed(c, "KeeperException", code)
             ELSE [c EXCEPT !.at = "built"]]
    /\ UNCHANGED <<pc, call, elapsed, promise, result, pending, expired, nodes, ver, stack,
                   ended, trace, wait>>

\* wait_for returned: not ready at the deadline, or ready, and future.get()
\* rethrows the exception or yields the code.
RootWaitOver(h) ==
    /\ clients[h].at = "wait_for"
    /\ clients[h].future # NoFuture \/ clients[h].elapsed = OperationTimeout
    /\ LET c == clients[h]
           code == c.future.error
       IN clients' = [clients EXCEPT ![h] =
             IF c.future = NoFuture THEN Failed(c, "KeeperException", ZOPERATIONTIMEOUT)
             ELSE IF c.future.status = "exception" THEN Failed(c, "KeeperException", code)
             ELSE IF ~(code = ZOK \/ code = ZNONODE) THEN Failed(c, "KeeperException", code)
             ELSE IF code = ZNONODE THEN Failed(c, "KeeperException", ZNONODE)
             ELSE [c EXCEPT !.at = "built"]]
    /\ UNCHANGED <<pc, call, elapsed, promise, result, pending, expired, nodes, ver, stack,
                   ended, trace, wait>>

startNewSession_InPlace(h) ==
    /\ h = "original"
    /\ clients[h].at = "built"
    /\ clients["new"].at = "none"
    /\ LET c == clients[h]
       IN clients' = [clients EXCEPT ![h] =
                         init("Strings", c.implementation, c.hosts, c.identity,
                              c.session_timeout_ms, c.operation_timeout_ms, c.chroot,
                              c.get_priority_load_balancing)]
    /\ UNCHANGED <<pc, call, elapsed, promise, result, pending, expired, nodes, ver, stack,
                   ended, trace, wait>>

\* startNewSession: another handle is constructed from the members of this
\* one, with the constructor that takes the list of hosts.
startNewSession(h) ==
    /\ h = "original"
    /\ clients[h].at = "built"
    /\ clients["new"].at = "none"
    /\ LET c == clients[h]
       IN clients' = [clients EXCEPT !["new"] =
                         init("Strings", c.implementation, c.hosts, c.identity,
                              c.session_timeout_ms, c.operation_timeout_ms, c.chroot,
                              c.get_priority_load_balancing)]
    /\ UNCHANGED <<pc, call, elapsed, promise, result, pending, expired, nodes, ver, stack,
                   ended, trace, wait>>

\* The session of a built handle ends.
ClientSessionExpires(h) ==
    /\ clients[h].at = "built"
    /\ ~clients[h].impl.expired
    /\ clients' = [clients EXCEPT ![h].impl.expired = TRUE]
    /\ UNCHANGED <<pc, call, elapsed, promise, result, pending, expired, nodes, ver, stack,
                   ended, trace, wait>>

\* The caller lets go of a handle, or of the exception its construction
\* threw.
Release(h) ==
    /\ clients[h].at \in {"built", "failed"}
    /\ h = "original" => clients["new"].at = "none"
    /\ clients' = [clients EXCEPT ![h] = NoClient]
    /\ UNCHANGED <<pc, call, elapsed, promise, result, pending, expired, nodes, ver, stack,
                   ended, trace, wait>>

\* ------------------------------------------------------- specifications
\* The tree the server holds when the client is constructed.
InitialTree == {PathA, PathAB}

Init ==
    /\ pc = [t \in Threads |-> "idle"]
    /\ call = [t \in Threads |-> NoCall]
    /\ elapsed = [t \in Threads |-> 0]
    /\ promise = [t \in Threads |-> NoResponse]
    /\ result = [t \in Threads |-> NoResult]
    /\ pending = {}
    /\ expired = FALSE
    /\ nodes = InitialTree
    /\ ver = [p \in AllPaths |-> 0]
    /\ stack = [t \in Threads |-> <<>>]
    /\ ended = [t \in Threads |-> NoEnd]
    /\ trace = NoTrace
    /\ wait = NoWait
    /\ clients = [h \in Handles |-> NoClient]

\* One caller, every operation with every argument, against a server that
\* answers each request faithfully (or never), an engine that may answer a
\* single-node request with any code, and a session that may end.
Next ==
    \/ \E c \in Calls : CallEmptyMulti(1, c)
    \/ \E c \in Calls : SubmitExpired(1, c)
    \/ \E c \in Calls : Submit(1, c)
    \/ ServerExec(1)
    \/ \E response \in EngineResponsesOfLen[0] :
          call[1].op \in PathOps /\ EngineAnswer(1, response)
    \/ SessionExpire
    \/ Tick(1)
    \/ WaitReady(1)
    \/ WaitTimeout(1)
    \/ Forget(1)

Spec == Init /\ [][Next]_vars

\* One caller, every operation with every argument, and an engine that
\* answers each request with any code (and a multi with any response list).
NextAnswers ==
    \/ \E c \in Calls : CallEmptyMulti(1, c)
    \/ \E c \in Calls : SubmitExpired(1, c)
    \/ \E c \in Calls : Submit(1, c)
    \/ \E response \in EngineResponses(call[1]) : EngineAnswer(1, response)
    \/ Tick(1)
    \/ WaitReady(1)
    \/ WaitTimeout(1)
    \/ Forget(1)

SpecAnswers == Init /\ [][NextAnswers]_vars

\* Several callers share the client handle and its session, which ends only
\* when one of their calls times out.
SessionCalls ==
    { Call("tryRemove", PathAB, AnyVersion, <<>>),
      Call("get", PathA, AnyVersion, <<>>),
      Call("tryMulti", NoPath, AnyVersion, <<Request("Remove", PathAB, AnyVersion)>>),
      Call("tryMultiNoThrow", NoPath, AnyVersion, <<Request("Check", PathA, AnyVersion)>>),
      Call("multi", NoPath, AnyVersion, <<>>) }

NextSession ==
    \/ \E t \in Threads, c \in SessionCalls : CallEmptyMulti(t, c)
    \/ \E t \in Threads, c \in SessionCalls : SubmitExpired(t, c)
    \/ \E t \in Threads, c \in SessionCalls : Submit(t, c)
    \/ \E t \in Threads : CallExpired(t)
    \/ \E t \in Threads : ServerExec(t)
    \/ \E t \in Threads : Tick(t)
    \/ \E t \in Threads : WaitReady(t)
    \/ \E t \in Threads : WaitTimeout(t)
    \/ \E t \in Threads : Forget(t)

SpecSession == Init /\ [][NextSession]_vars

\* One caller removes the children of a path while another client removes
\* nodes of the same tree; the server answers each request faithfully or
\* never.
\* The deepest activation: one for the root and one per component of the deepest path.
MaxDepth == Len(PathAB) + 1
NextRemove ==
    \/ \E path \in {Root, PathA}, probably_flat \in BOOLEAN, keep_child_node \in {"", "a", "b"} :
          tryRemoveChildrenRecursive(1, path, probably_flat, keep_child_node)
    \/ \E path \in {PathA, PathAB} : tryRemoveRecursive(1, path)
    \/ AfterRemovePath(1)
    \/ AfterTryGetChildren(1)
    \/ WhileChildren(1)
    \/ ForBatch(1)
    \/ AfterTryMulti(1)
    \/ FuturesGetBlocked(1)
    \/ FuturesGet(1)
    \/ AfterTryRemove(1)
    \/ TakeOutcome(1)
    \/ ServerExec(1)
    \/ \E d \in 1..MaxDepth, j \in 1..MULTI_BATCH_SIZE : ServerExecFuture(1, d, j)
    \/ \E p \in AllPaths : OtherClientRemoves(p)
    \/ Tick(1)
    \/ WaitReady(1)
    \/ WaitTimeout(1)

\* The recursive deletions start on the whole tree.
InitRemove ==
    /\ pc = [t \in Threads |-> "idle"]
    /\ call = [t \in Threads |-> NoCall]
    /\ elapsed = [t \in Threads |-> 0]
    /\ promise = [t \in Threads |-> NoResponse]
    /\ result = [t \in Threads |-> NoResult]
    /\ pending = {}
    /\ expired = FALSE
    /\ nodes = AllPaths
    /\ ver = [p \in AllPaths |-> 0]
    /\ stack = [t \in Threads |-> <<>>]
    /\ ended = [t \in Threads |-> NoEnd]
    /\ trace = NoTrace
    /\ wait = NoWait
    /\ clients = [h \in Handles |-> NoClient]

SpecRemove == InitRemove /\ [][NextRemove]_vars

\* One caller runs the strict deletions while another client removes nodes
\* of the same tree; the server answers each request faithfully or never.
NextStrict ==
    \/ \E path \in {Root, PathA} : removeChildren(1, path)
    \/ \E path \in {Root, PathA}, keep_child_node \in {"", "a", "b"} :
          removeChildrenRecursive(1, path, keep_child_node)
    \/ \E path \in {PathA, PathAB} : removeRecursive(1, path)
    \/ AfterGetChildren(1)
    \/ WhileChildren(1)
    \/ ForStrict(1)
    \/ AfterMulti(1)
    \/ AfterRemovePath(1)
    \/ TakeOutcome(1)
    \/ ServerExec(1)
    \/ \E p \in AllPaths : OtherClientRemoves(p)
    \/ Tick(1)
    \/ WaitReady(1)
    \/ WaitTimeout(1)

SpecStrict == InitRemove /\ [][NextStrict]_vars

\* One caller runs tryRemoveRecursive while another client removes nodes of
\* the same tree, on a session that lasts: the server answers every request
\* before its deadline, and the caller's thread is scheduled.
StepTryRemove(t) ==
    \/ AfterTryGetChildren(t)
    \/ WhileChildren(t)
    \/ ForBatch(t)
    \/ AfterTryMulti(t)
    \/ FuturesGet(t)
    \/ AfterRemovePath(t)
    \/ WaitReady(t)

ServerAnswers(t) ==
    \/ ServerExec(t)
    \/ \E d \in 1..MaxDepth, j \in 1..MULTI_BATCH_SIZE : ServerExecFuture(t, d, j)

NextTryRemoveLive ==
    \/ \E path \in {PathA, PathAB} : tryRemoveRecursive(1, path)
    \/ StepTryRemove(1)
    \/ ServerAnswers(1)
    \/ TakeOutcome(1)
    \/ \E p \in AllPaths : OtherClientRemoves(p)

SpecTryRemoveLive ==
    /\ InitRemove
    /\ [][NextTryRemoveLive]_vars
    /\ WF_vars(StepTryRemove(1))
    /\ WF_vars(ServerAnswers(1))

\* One caller waits for a node to disappear, with or without a condition,
\* while other clients change and delete nodes and the session may end.
NextWait ==
    \/ \E path \in Paths, condition \in BOOLEAN, stop \in BOOLEAN :
          (condition \/ ~stop) /\ waitForDisappear(1, path, condition, stop)
    \/ WaitGet(1)
    \/ TryWait(1)
    \/ TryWaitTimeout(1)
    \/ CheckNoNode(1)
    \/ CheckCode(1)
    \/ ThrowCode(1)
    \/ CheckType(1)
    \/ WhileCondition(1)
    \/ TakeOutcome(1)
    \/ Deliver
    \/ ServerGet
    \/ \E p \in Paths : OtherClientDeletes(p)
    \/ \E p \in Paths : OtherClientSets(p)
    \/ WaitSessionExpires
    \/ ConditionChanges

SpecWait == Init /\ [][NextWait]_vars

\* One caller runs any of the recursive deletions.
NextDelete == NextRemove \/ NextStrict

SpecDelete == InitRemove /\ [][NextDelete]_vars

\* One caller runs createOrUpdate on a node that exists and on one that
\* another client creates and removes meanwhile; the server answers faithfully or never, the engine may answer with
\* any code, and the session may end.
NextCreate ==
    \/ \E path \in {PathA, PathAC} : createOrUpdate(1, path)
    \/ AfterTrySet(1)
    \/ AfterCreate(1)
    \/ TakeOutcome(1)
    \/ ServerExec(1)
    \/ \E response \in EngineResponsesOfLen[0] : EngineAnswer(1, response)
    \/ OtherClientCreates(PathAC)
    \/ OtherClientRemoves(PathAC)
    \/ SessionExpire
    \/ Tick(1)
    \/ WaitReady(1)
    \/ WaitTimeout(1)

SpecCreate == Init /\ [][NextCreate]_vars

\* The paths handed to createAncestors: "/a/b/c", "/a/b" and "a/b".
AncestorPaths ==
    { <<Slash, "a", Slash, "b", Slash, "c">>, <<Slash, "a", Slash, "b">>, <<"a", Slash, "b">> }

\* Nothing exists yet when the ancestors are created.
InitAncestors ==
    /\ pc = [t \in Threads |-> "idle"]
    /\ call = [t \in Threads |-> NoCall]
    /\ elapsed = [t \in Threads |-> 0]
    /\ promise = [t \in Threads |-> NoResponse]
    /\ result = [t \in Threads |-> NoResult]
    /\ pending = {}
    /\ expired = FALSE
    /\ nodes = {}
    /\ ver = [p \in AllPaths |-> 0]
    /\ stack = [t \in Threads |-> <<>>]
    /\ ended = [t \in Threads |-> NoEnd]
    /\ trace = NoTrace
    /\ wait = NoWait
    /\ clients = [h \in Handles |-> NoClient]

\* The threads that call createAncestors.
Creators == {1, NumThreads}

\* Several callers run createAncestors at once while another client creates
\* the same nodes; nobody removes a node, and the server answers each
\* request faithfully or never.
NextAncestors ==
    \/ \E t \in Creators, path \in AncestorPaths : createAncestors(t, path)
    \/ \E t \in Creators : FindSlash(t)
    \/ \E t \in Creators : AfterCreateIfNotExists(t)
    \/ \E t \in Creators : TakeOutcome(t)
    \/ \E t \in Creators : ServerExec(t)
    \/ \E p \in Paths : OtherClientCreates(p)
    \/ \E t \in Creators : Tick(t)
    \/ \E t \in Creators : WaitReady(t)
    \/ \E t \in Creators : WaitTimeout(t)

SpecAncestors == InitAncestors /\ [][NextAncestors]_vars

\* The arguments of the constructions.
HostA == <<"a:2181">>
HostB == <<SecureMarker, "b:2181">>
HostC == <<"c:2181">>
HostLists == {<<>>, <<HostA>>, <<HostA, HostB>>, <<HostA, HostB, HostC>>}
HostStrings == {<<>>, HostA, HostA \o <<Comma>> \o HostB}
Chroots == {<<>>, <<Slash, "r">>, <<"r">>}
Roots == Chroots \cup {<<Slash, "r", Slash>>, <<Slash>>, <<Slash, "r", Slash, Slash>>}
Implementations == {"zookeeper", "testkeeper", "other"}
LoadBalancings == {"RANDOM", "IN_ORDER", "FIRST_OR_RANDOM"}
Identities == {"", "user:password"}

StringsArgs(lists, chroots, implementations, identities) ==
    { [hosts |-> hosts, identity |-> identity, session_timeout_ms |-> "session_timeout_ms",
       operation_timeout_ms |-> OperationTimeout, chroot |-> chroot,
       implementation |-> implementation, get_priority_load_balancing |-> load_balancing] :
        hosts \in lists, chroot \in chroots, implementation \in implementations,
        identity \in identities, load_balancing \in LoadBalancings }

StringArgs ==
    { [hosts_string |-> hosts_string, identity |-> "", session_timeout_ms |-> "session_timeout_ms",
       operation_timeout_ms |-> OperationTimeout, chroot |-> chroot,
       implementation |-> "zookeeper", get_priority_load_balancing |-> "RANDOM"] :
        hosts_string \in HostStrings, chroot \in Chroots }

Configs ==
    { [node |-> node, identity |-> "", session_timeout_ms |-> "DEFAULT_SESSION_TIMEOUT_MS",
       operation_timeout_ms |-> OperationTimeout, root |-> root,
       implementation |-> implementation, zookeeper_load_balancing |-> "RANDOM"] :
        node \in {<<>>, <<[secure |-> TRUE, host |-> "a:2181"]>>},
        root \in Roots, implementation \in {"zookeeper", "testkeeper"} }

\* One caller runs tryRemoveChildrenRecursive while other clients of the
\* same server remove and create nodes of the tree and the session can end
\* at any time; the server answers each request faithfully or never.
FallbackCreated == {PathAB}
FallbackRemoved == {PathAB, PathAC}
NextFallback ==
    \/ \E path \in {Root, PathA}, probably_flat \in BOOLEAN :
          tryRemoveChildrenRecursive(1, path, probably_flat, "")
    \/ AfterTryGetChildren(1)
    \/ WhileChildren(1)
    \/ ForBatch(1)
    \/ AfterTryMulti(1)
    \/ FuturesGetBlocked(1)
    \/ FuturesGet(1)
    \/ AfterTryRemove(1)
    \/ TakeOutcome(1)
    \/ ServerExec(1)
    \/ \E d \in 1..MaxDepth, j \in 1..MULTI_BATCH_SIZE : ServerExecFuture(1, d, j)
    \/ \E p \in FallbackRemoved : OtherClientRemoves(p)
    \/ \E p \in FallbackCreated : OtherClientCreates(p)
    \/ SessionExpire
    \/ Tick(1)
    \/ WaitReady(1)
    \/ WaitTimeout(1)

SpecFallback == InitRemove /\ [][NextFallback]_vars

\* Several callers read nodes through the bridge; a completion can arrive
\* before the deadline, between the deadline and finalize, or only from
\* finalize, and the session can end on its own.
LateCalls ==
    { Call("get", PathA, AnyVersion, <<>>),
      Call("tryGetWatch", PathAB, AnyVersion, <<>>),
      Call("tryGetWatch", PathAC, AnyVersion, <<>>) }

\* The threads that call.
LateCallers == {1, NumThreads}

NextLate ==
    \/ \E t \in LateCallers, c \in LateCalls : SubmitExpired(t, c)
    \/ \E t \in LateCallers, c \in LateCalls : Submit(t, c)
    \/ \E t \in LateCallers : ServerExec(t)
    \/ \E t \in LateCallers, code \in {ZOK, ZNONODE, ZCONNECTIONLOSS} :
          EngineAnswer(t, Response(code, <<>>, "engine"))
    \/ SessionExpire
    \/ \E t \in LateCallers : Tick(t)
    \/ \E t \in LateCallers : WaitReady(t)
    \/ \E t \in LateCallers : DeadlineReached(t)
    \/ \E t \in LateCallers : FinalizeAfterTimeout(t)
    \/ \E t \in LateCallers : Forget(t)

SpecLate == Init /\ [][NextLate]_vars

\* A caller constructs a client with each constructor and every argument;
\* the resolution of each host succeeds or fails, and the engine answers the
\* root check with any code or never.
NextConstruct ==
    \/ \E a \in StringsArgs(HostLists, Chroots, Implementations, {""}) :
          ZooKeeper_Strings("original", a)
    \/ \E a \in StringArgs : ZooKeeper_string("original", a)
    \/ \E config \in Configs : ZooKeeper_config("original", config)
    \/ shuffleHosts("original")
    \/ \E resolution \in Resolutions : ResolveHost("original", resolution)
    \/ MakeImpl("original")
    \/ \E code \in Codes : RootAnswer("original", code)
    \/ RootTick("original")
    \/ RootWaitOver("original")
    \/ Release("original")

SpecConstruct == Init /\ [][NextConstruct]_vars

\* A caller constructs a client and calls startNewSession on it any number
\* of times, while the sessions end.
NextNewSession ==
    \/ \E a \in StringsArgs({<<HostA, HostB>>}, {<<>>, <<Slash, "r">>},
                            {"zookeeper", "testkeeper"}, Identities) :
          ZooKeeper_Strings("original", a)
    \/ startNewSession("original")
    \/ \E h \in Handles : shuffleHosts(h)
    \/ \E h \in Handles, resolution \in Resolutions : ResolveHost(h, resolution)
    \/ \E h \in Handles : MakeImpl(h)
    \/ \E h \in Handles, code \in {ZOK, ZNONODE} : RootAnswer(h, code)
    \/ \E h \in Handles : RootTick(h)
    \/ \E h \in Handles : RootWaitOver(h)
    \/ \E h \in Handles : ClientSessionExpires(h)
    \/ \E h \in Handles : Release(h)

SpecNewSession == Init /\ [][NextNewSession]_vars

\* ------------------------------------------------------------- claims
\* C1: when a thread leaves the bridge's wait, then either no completion had
\* arrived by the deadline, and the call terminates the session
\* (impl->finalize) and yields ZOPERATIONTIMEOUT, or the completion had
\* arrived, and the call yields the response's code and leaves the session
\* and the outstanding requests as they were.
BridgeTimeoutOrResponse ==
    [][\A t \in Threads :
          pc[t] = "wait" /\ pc'[t] = "done" =>
             IF promise[t] = NoResponse
             THEN /\ elapsed[t] = OperationTimeout
                  /\ result'[t].code = ZOPERATIONTIMEOUT
                  /\ result'[t].finalize
                  /\ expired' /\ pending' = {}
             ELSE /\ result'[t].code = promise[t].error
                  /\ ~result'[t].finalize
                  /\ expired' = expired /\ pending' = pending /\ promise' = promise]_vars

\* C1 witness: a non-empty multi has timed out and the session is terminated.
BridgeTimedOut ==
    /\ pc[1] = "done"
    /\ call[1].op = "tryMulti" /\ call[1].requests # <<>>
    /\ result[1].status = "timeout"
    /\ result[1].code = ZOPERATIONTIMEOUT
    /\ expired

\* A finished call of operation op whose code came out of the bridge's
\* wait (a response or the deadline).
Bridged_Done(t, ops) ==
    /\ pc[t] = "done"
    /\ call[t].op \in ops
    /\ result[t].status \in {"ready", "timeout"}

\* The code the bridge yields is the response's, or ZOPERATIONTIMEOUT.
CodeOfBridge(t) ==
    result[t].code = IF result[t].status = "ready" THEN promise[t].error ELSE ZOPERATIONTIMEOUT

\* The call returned its code as a value exactly for the codes in nonfatal,
\* and raised KeeperException(code, path) for every other code.
ReturnsExactly(t, nonfatal) ==
    LET r == result[t]
    IN /\ CodeOfBridge(t)
       /\ (r.kind = "returned") <=> (r.code \in nonfatal)
       /\ r.kind = "returned" => r.value = r.code
       /\ r.kind # "returned" =>
             r.kind = "KeeperException" /\ r.exc_code = r.code /\ r.exc_path = call[t].path

\* The server answered the call of thread t, and did not change the tree.
ServerRefused(t) ==
    /\ result[t].status = "ready"
    /\ promise[t].src = "server"
    /\ promise[t].error # ZOK

\* C4: tryRemove returns the code without raising exactly when it is ZOK,
\* ZNONODE, ZBADVERSION or ZNOTEMPTY, and raises KeeperException(code, path)
\* for every other code; a remove of a path that does not exist, answered by
\* the server, is returned as ZNONODE.
TryRemoveReturnsNonFatal ==
    \A t \in Threads :
        Bridged_Done(t, {"tryRemove"}) =>
            /\ ReturnsExactly(t, {ZOK, ZNONODE, ZBADVERSION, ZNOTEMPTY})
            /\ ServerRefused(t) /\ call[t].path \notin nodes =>
                  result[t].kind = "returned" /\ result[t].value = ZNONODE

\* C4 witness: the server answered a tryRemove of a path that does not exist
\* and the call returned ZNONODE.
TryRemoveOfMissingNode ==
    /\ Bridged_Done(1, {"tryRemove"})
    /\ ServerRefused(1)
    /\ call[1].path \notin nodes
    /\ result[1].kind = "returned"
    /\ result[1].value = ZNONODE

\* C5: tryCreate returns the code without raising exactly when it is ZOK,
\* ZNODEEXISTS, ZNONODE or ZNOCHILDRENFOREPHEMERALS, trySet exactly when it
\* is ZOK, ZNONODE or ZBADVERSION; both raise KeeperException(code, path) for
\* every other code; a set with a stale version, answered by the server, is
\* returned as ZBADVERSION.
TryCreateTrySetReturnNonFatal ==
    \A t \in Threads :
        /\ Bridged_Done(t, {"tryCreate"}) =>
              ReturnsExactly(t, {ZOK, ZNODEEXISTS, ZNONODE, ZNOCHILDRENFOREPHEMERALS})
        /\ Bridged_Done(t, {"trySet"}) =>
              /\ ReturnsExactly(t, {ZOK, ZNONODE, ZBADVERSION})
              /\ ( /\ ServerRefused(t)
                   /\ call[t].path \in nodes
                   /\ call[t].version \notin {AnyVersion, ver[call[t].path]} ) =>
                    result[t].kind = "returned" /\ result[t].value = ZBADVERSION

\* C5 witness: the server answered a trySet with a stale version and the
\* call returned ZBADVERSION.
TrySetWithStaleVersion ==
    /\ Bridged_Done(1, {"trySet"})
    /\ ServerRefused(1)
    /\ call[1].path \in nodes
    /\ call[1].version \notin {AnyVersion, ver[call[1].path]}
    /\ result[1].kind = "returned"
    /\ result[1].value = ZBADVERSION

\* C6: of the reads, existsWatch and tryGetWatch return true on ZOK and
\* false on ZNONODE (tryGetWatch storing the code in return_code),
\* tryGetChildren returns ZOK or ZNONODE, and every other code is raised as
\* KeeperException(code, path).
ReadsReturnOnlyNoNode ==
    \A t \in Threads :
        LET r == result[t]
            raised == r.kind = "KeeperException" /\ r.exc_code = r.code
                      /\ r.exc_path = call[t].path /\ r.return_code = "unset"
        IN /\ Bridged_Done(t, {"existsWatch", "tryGetWatch"}) =>
                 /\ CodeOfBridge(t)
                 /\ r.code = ZOK => r.kind = "returned" /\ r.value = "true"
                 /\ r.code = ZNONODE => r.kind = "returned" /\ r.value = "false"
                 /\ r.code \notin {ZOK, ZNONODE} => raised
                 /\ call[t].op = "tryGetWatch" /\ r.kind = "returned" => r.return_code = r.code
           /\ Bridged_Done(t, {"tryGetChildren"}) => ReturnsExactly(t, {ZOK, ZNONODE})

\* C6 witness: a tryGetWatch was answered ZNONODE, returned false and stored
\* ZNONODE in return_code.
TryGetOfMissingNode ==
    /\ Bridged_Done(1, {"tryGetWatch"})
    /\ result[1].code = ZNONODE
    /\ result[1].kind = "returned"
    /\ result[1].value = "false"
    /\ result[1].return_code = ZNONODE

StrictOps == {"create", "remove", "set", "get", "getChildren"}

\* The call returned a plain value (no code) exactly on ZOK and raised a
\* KeeperException with the code otherwise.
RaisesUnlessOK(t) ==
    LET r == result[t]
    IN /\ CodeOfBridge(t)
       /\ (r.kind = "returned") <=> (r.code = ZOK)
       /\ r.kind = "returned" => r.value \notin Codes
       /\ r.kind # "returned" => r.kind = "KeeperException" /\ r.exc_code = r.code

\* C7 as claimed: every strict variant, exists included, raises on every
\* code other than ZOK.
StrictVariantsRaiseUnlessOK ==
    \A t \in Threads : Bridged_Done(t, StrictOps \cup {"exists"}) => RaisesUnlessOK(t)

\* C7 amended: create, remove, set, get and getChildren raise on every code
\* other than ZOK (ZNONODE included) and return a plain value on ZOK; exists
\* returns true on ZOK, false on ZNONODE, and raises on every other code.
StrictVariantsRaiseExceptExists ==
    \A t \in Threads :
        /\ Bridged_Done(t, StrictOps) => RaisesUnlessOK(t)
        /\ Bridged_Done(t, {"exists"}) =>
              LET r == result[t]
              IN /\ CodeOfBridge(t)
                 /\ r.code = ZOK => r.kind = "returned" /\ r.value = "true"
                 /\ r.code = ZNONODE => r.kind = "returned" /\ r.value = "false"
                 /\ r.code \notin {ZOK, ZNONODE} =>
                       r.kind = "KeeperException" /\ r.exc_code = r.code

\* C7 witness: a strict get was answered ZNONODE and raised it.
StrictGetOfMissingNode ==
    /\ Bridged_Done(1, {"get"})
    /\ result[1].code = ZNONODE
    /\ result[1].kind = "KeeperException"
    /\ result[1].exc_code = ZNONODE

\* The smallest 1-based position of a non-OK response.
FirstFailed(responses) ==
    CHOOSE i \in 1..Len(responses) :
        responses[i] # ZOK /\ \A j \in 1..(i - 1) : responses[j] = ZOK

RemoveAt(s, i) == SubSeq(s, 1, i - 1) \o SubSeq(s, i + 1, Len(s))

\* Operation i of the batch is a set whose version is stale when the server
\* reaches it on the tree (ns, vs), and the batch without it is valid.
OnlyStaleSet(reqs, i, ns, vs) ==
    LET before == ServerMultiFrom(SubSeq(reqs, 1, i - 1), 1, ns, vs, <<>>)
    IN /\ before.error = ZOK
       /\ reqs[i].kind = "Set"
       /\ reqs[i].path \in before.nodes
       /\ reqs[i].version \notin {AnyVersion, before.ver[reqs[i].path]}
       /\ ServerMulti(RemoveAt(reqs, i), ns, vs).error = ZOK

\* How a finished multi of thread t ended, by the code it completed with.
MultiEndedByCode(t) ==
    LET r == result[t]
        reqs == call[t].requests
    IN /\ CodeOfBridge(t)
       /\ r.code = ZOK =>
             /\ r.kind = "returned" /\ r.value = "responses"
             /\ r.responses = promise[t].responses
             /\ promise[t].src = "server" => Len(r.responses) = Len(reqs)
       /\ isUserError(r.code) /\ (\E i \in 1..Len(r.responses) : r.responses[i] # ZOK) =>
             /\ r.kind = "KeeperMultiException"
             /\ r.exc_code = r.code
             /\ r.failed_op_index = FirstFailed(r.responses) - 1
             /\ r.exc_path = reqs[FirstFailed(r.responses)].path
       /\ r.code # ZOK /\ ~isUserError(r.code) =>
             /\ r.kind = "KeeperException" /\ r.exc_code = r.code
             /\ r.failed_op_index = NoIndex /\ r.exc_path = NoPath
       /\ \A i \in 1..Len(reqs) :
             ServerRefused(t) /\ OnlyStaleSet(reqs, i, nodes, ver) =>
                /\ r.kind = "KeeperMultiException"
                /\ r.failed_op_index = i - 1
                /\ r.exc_path = reqs[i].path

\* C8: a multi completed with ZOK returns the full response list; completed
\* with a user error it raises KeeperMultiException with the smallest index
\* of a non-OK response and the path of that request; completed with any
\* other code it raises a plain KeeperException without index or path. A
\* batch whose only invalid operation is a stale-version set is reported at
\* exactly that operation, and a batch the server refuses leaves the tree as
\* it was.
MultiReportsFirstFailedOp ==
    /\ [](\A t \in Threads : Bridged_Done(t, {"multi"}) => MultiEndedByCode(t))
    /\ [][\A t \in Threads :
            ( /\ call[t].op \in MultiOps
              /\ promise[t] = NoResponse
              /\ promise'[t].src = "server"
              /\ promise'[t].error # ZOK ) => nodes' = nodes /\ ver' = ver]_vars

\* C8 witness: the server refused a multi of a valid set followed by a
\* stale set; multi raised KeeperMultiException for index 1 and the second
\* path, and the first set was not applied.
MultiWithOneStaleSet ==
    /\ Bridged_Done(1, {"multi"})
    /\ call[1].requests = <<Request("Set", PathA, 0), Request("Set", PathAB, 1)>>
    /\ ServerRefused(1)
    /\ OnlyStaleSet(call[1].requests, 2, nodes, ver)
    /\ result[1].kind = "KeeperMultiException"
    /\ result[1].exc_code = ZBADVERSION
    /\ result[1].failed_op_index = 1
    /\ result[1].exc_path = PathAB
    /\ ver[PathA] = 0

\* A multi completed with a user error although no response is non-OK.
UserErrorWithoutFailedOp(t) ==
    /\ Bridged_Done(t, {"multi"})
    /\ result[t].status = "ready"
    /\ isUserError(result[t].code)
    /\ \A i \in 1..Len(result[t].responses) : result[t].responses[i] = ZOK

\* C9: when a multi completes with a user error while its response list is
\* empty or holds only ZOK, multi raises LOGICAL_ERROR: neither a
\* KeeperException nor a KeeperMultiException, with no Keeper code and no
\* failed index.
UserErrorWithoutFailedOpIsLogicalError ==
    \A t \in Threads :
        UserErrorWithoutFailedOp(t) =>
            /\ result[t].kind = "LOGICAL_ERROR"
            /\ result[t].exc_code \notin Codes
            /\ result[t].failed_op_index = NoIndex

\* C9 witness: a multi of two requests completed with ZBADVERSION and two
\* ZOK responses, and raised LOGICAL_ERROR.
UserErrorWithAllOK ==
    /\ UserErrorWithoutFailedOp(1)
    /\ promise[1].error = ZBADVERSION
    /\ result[1].responses = <<ZOK, ZOK>>
    /\ result[1].kind = "LOGICAL_ERROR"

\* C10: tryMulti returns the top-level code, with the response list handed
\* to the caller, exactly when the code is ZOK or a user error; for every
\* other code it raises a KeeperException carrying the code.
TryMultiReturnsUserErrors ==
    \A t \in Threads :
        Bridged_Done(t, {"tryMulti"}) =>
            LET r == result[t]
            IN /\ CodeOfBridge(t)
               /\ (r.kind = "returned") <=> (r.code = ZOK \/ isUserError(r.code))
               /\ r.kind = "returned" =>
                     r.value = r.code /\ r.wrote /\ r.responses = promise[t].responses
               /\ r.kind # "returned" => r.kind = "KeeperException" /\ r.exc_code = r.code

\* C10 witness: a tryMulti completed with ZBADVERSION and returned it with
\* the response list.
TryMultiReturnedUserError ==
    /\ Bridged_Done(1, {"tryMulti"})
    /\ result[1].kind = "returned"
    /\ result[1].value = ZBADVERSION
    /\ result[1].responses = <<ZOK, ZBADVERSION>>

\* Thread t ends a call in this step, and the call either was issued on a
\* terminated session or had its request answered by finalize.
EndsOnTerminatedSession(t) ==
    /\ pc[t] # "done" /\ pc'[t] = "done"
    /\ \/ pc[t] = "idle" /\ expired
       \/ pc[t] = "wait" /\ promise[t] = AnsweredByFinalize

EveryWaitIsBounded ==
    \A t \in Threads : pc[t] \in {"wait", "get"} => elapsed[t] <= OperationTimeout

\* C11: multi, tryMulti and tryMultiNoThrow called with an empty request
\* list return success (ZOK, no responses) at once: the call ends in the
\* step that makes it, nothing is submitted, the thread never waits, the
\* session is not finalized, and this holds whether or not the session has
\* expired.
EmptyMultiReturnsOKUnsubmitted ==
    /\ [](\A t \in Threads :
            pc[t] # "idle" /\ EmptyMulti(call[t]) =>
               /\ pc[t] = "done"
               /\ result[t].kind = "returned"
               /\ result[t].code = ZOK
               /\ result[t].responses = <<>>
               /\ result[t].status = "unsubmitted"
               /\ ~result[t].finalize
               /\ call[t].op = "multi" => result[t].value = "responses"
               /\ call[t].op # "multi" => result[t].value = ZOK)
    /\ [][\A t \in Threads :
            pc[t] = "idle" /\ pc'[t] # "idle" /\ EmptyMulti(call'[t]) =>
               /\ pending' = pending
               /\ promise' = promise
               /\ elapsed' = elapsed
               /\ expired' = expired]_vars

\* C11 witness: the session has expired and a multi of an empty list has
\* returned ZOK.
EmptyMultiOnExpiredSession ==
    \E t \in Threads :
       /\ expired
       /\ pc[t] = "done"
       /\ EmptyMulti(call[t])
       /\ call[t].op = "multi"
       /\ result[t].kind = "returned"
       /\ result[t].code = ZOK

\* The requests of the history from position k on that remove a node.
RemovesSentFrom(history, k) ==
    { j \in k..Len(history.sent) : history.sent[j].kind \in {"Multi", "Remove", "AsyncRemove"} }

\* C18: an activation of tryRemoveChildrenRecursive whose listing is
\* answered NO-NODE returns false to its caller without raising, having
\* submitted nothing but the listing; and tryRemoveRecursive called on a
\* path that does not exist completes without raising while the session
\* lasts: it lists path, tryRemoveChildrenRecursive returns false, tryRemove
\* returns NO-NODE, and nothing else is submitted.
MissingNodeIsNotAnError ==
    /\ [][\A t \in Threads :
            /\ stack[t] # <<>> /\ Top(t).at = "tryGetChildren" /\ pc[t] = "done"
            /\ result[t].kind = "returned" /\ result[t].value = ZNONODE
            /\ stack'[t] # stack[t]
            => /\ Len(stack'[t]) = Len(stack[t]) - 1
               /\ ended'[t].kind \in {"none", "returned"}
               /\ Len(stack[t]) = 1 => ended'[t] = End("returned", FALSE, "none", NoPath)
               /\ (\A d \in 1..(Len(stack[t]) - 1) :
                      stack[t][d].fn # "tryRemoveChildrenRecursive") => trace'.value = "false"
               /\ trace.sent[Len(trace.sent)] = Entry("List", <<Top(t).path>>, Len(stack[t]))
               /\ \A j \in RemovesSentFrom(trace', Len(trace.sent) + 1) :
                      trace'.sent[j].depth < Len(stack[t])]_vars
    /\ [](\A t \in Threads :
            /\ ended[t] # NoEnd /\ ~expired
            /\ trace.fn = "tryRemoveRecursive" /\ trace.path \notin trace.start
            => /\ ended[t] = End("returned", "void", "none", NoPath)
               /\ trace.value = "false"
               /\ trace.sent = <<Entry("List", <<trace.path>>, 2),
                                 Entry("Remove", <<trace.path>>, 1)>>
               /\ nodes \cup trace.others = trace.start)

\* C18 witness: tryRemoveRecursive was called on a path that did not exist
\* and has returned.
TryRemoveRecursiveOfMissingNode ==
    \E t \in Threads :
       /\ ended[t].kind = "returned" /\ ~expired
       /\ trace.fn = "tryRemoveRecursive" /\ trace.path \notin trace.start
       /\ trace.value = "false"

\* A fallback (the per-child removals after a failed batch) was taken by some
\* activation of the call.
FallbackTaken == \E j \in 1..Len(trace.sent) : trace.sent[j].kind = "AsyncRemove"

\* C15: whenever any fallback path was taken during a call of
\* tryRemoveChildrenRecursive, inside a recursive descent included, the call
\* returns false.
FallbackAnywhereReturnsFalse ==
    \A t \in Threads :
       /\ ended[t].kind = "returned"
       /\ trace.fn = "tryRemoveChildrenRecursive"
       /\ FallbackTaken
       => ended[t].value = FALSE

\* The call in progress (or just over) takes a keep_child_node.
KeepCall ==
    /\ trace.fn \in {"removeChildrenRecursive", "tryRemoveChildrenRecursive"}
    /\ trace.keep_child_node # ""
KeepChild == Append(trace.path, trace.keep_child_node)

\* The paths of the removals (batched, single or fallback) in the history
\* submitted by the activation at depth d.
RemovesSentAt(d) ==
    { p \in AllPaths :
        \E j \in RemovesSentFrom(trace, 1) :
           /\ trace.sent[j].depth = d
           /\ \E k \in 1..Len(trace.sent[j].paths) : trace.sent[j].paths[k] = p }

\* C17: when removeChildrenRecursive or tryRemoveChildrenRecursive is
\* called with a non-empty keep_child_node, no removal (batched, single or
\* fallback) is ever submitted for the direct child of that name, so that
\* the child, unless another client removes it, exists all along and at the
\* return; and when the outermost activation has gone through its list,
\* a removal has been submitted for every other direct child it listed.
KeptChildIsNeverRemoved ==
    \A t \in Threads :
       KeepCall =>
          /\ \A d \in 1..MaxDepth : KeepChild \notin RemovesSentAt(d)
          /\ KeepChild \in trace.start /\ KeepChild \notin trace.others => KeepChild \in nodes
          /\ Len(stack[t]) = 1 /\ Top(t).at = "while" /\ Top(t).children = <<>> =>
                \A k \in 1..Len(Top(t).listed) :
                   Top(t).listed[k] # trace.keep_child_node =>
                      Append(trace.path, Top(t).listed[k]) \in RemovesSentAt(1)

\* C17 witness: a call with a keep_child_node has returned, the kept child
\* exists and the call removed another child.
KeptChildSurvivesItsSiblings ==
    \E t \in Threads :
       /\ KeepCall
       /\ ended[t].kind = "returned"
       /\ KeepChild \in nodes
       /\ RemovesSentAt(1) # {}
       /\ RemovesSentAt(1) \cap nodes = {}

\* The activations that run a batching loop.
BatchingFns == {"removeChildren", "removeChildrenRecursive", "tryRemoveChildrenRecursive"}

\* The places (batch, position) of child path p in the batches activation f
\* has sent.
PlacesOf(f, p) ==
    { bk \in (1..Len(f.batches)) \X (1..MULTI_BATCH_SIZE + 1) :
        bk[2] <= Len(f.batches[bk[1]]) /\ f.batches[bk[1]][bk[2]] = p }

\* Activation f has gone through the whole of its list.
ListExhausted(f) == f.fn \in BatchingFns /\ f.at = "while" /\ f.children = <<>>

\* Every multi submitted by a recursive deletion holds between one and
\* MULTI_BATCH_SIZE removals.
BatchesAreBounded ==
    \A j \in 1..Len(trace.sent) :
       trace.sent[j].kind = "Multi" =>
          Len(trace.sent[j].paths) \in 1..MULTI_BATCH_SIZE

\* The call ran alone on a node whose children were all leaves, without a
\* keep_child_node, and has returned.
ReturnedFromLeaves(t) ==
    /\ ended[t].kind = "returned"
    /\ trace.fn \in BatchingFns
    /\ trace.keep_child_node = ""
    /\ trace.others = {}
    /\ \A c \in Children(trace.start, trace.path) : ~HasChildren(trace.start, c)

\* The requests of the given kinds in the history.
SentOfKinds(kinds) == { j \in 1..Len(trace.sent) : trace.sent[j].kind \in kinds }

\* ceil(N / MULTI_BATCH_SIZE) multi requests and no per-child removal.
LeavesTakeCeilBatches(t) ==
    LET N == Cardinality(Children(trace.start, trace.path))
    IN ReturnedFromLeaves(t) =>
          /\ Cardinality(SentOfKinds({"Multi"})) = (N + MULTI_BATCH_SIZE - 1) \div MULTI_BATCH_SIZE
          /\ SentOfKinds({"Remove", "AsyncRemove"}) = {}
          /\ Children(nodes, trace.path) = {}

\* C16: every multi submitted by removeChildren, removeChildrenRecursive
\* and tryRemoveChildrenRecursive holds at most MULTI_BATCH_SIZE removals,
\* every listed child is placed in exactly one batch, and N leaf children
\* removed without keep node and without concurrent mutation take exactly
\* ceil(N / MULTI_BATCH_SIZE) multi requests and no per-child removal.
EveryListedChildInOneBatch ==
    \A t \in Threads :
       /\ BatchesAreBounded
       /\ \A d \in 1..Len(stack[t]) :
             ListExhausted(stack[t][d]) =>
                \A k \in 1..Len(stack[t][d].listed) :
                   Cardinality(PlacesOf(stack[t][d],
                                        Append(stack[t][d].path, stack[t][d].listed[k]))) = 1
       /\ LeavesTakeCeilBatches(t)

\* C16 amended: every multi holds at most MULTI_BATCH_SIZE removals, every
\* listed child other than keep_child_node is placed in exactly one batch
\* and the child named keep_child_node in none, and N leaf children removed
\* without keep node and without concurrent mutation take exactly
\* ceil(N / MULTI_BATCH_SIZE) multi requests and no per-child removal.
EveryListedChildButKeptInOneBatch ==
    \A t \in Threads :
       /\ BatchesAreBounded
       /\ \A d \in 1..Len(stack[t]) :
             LET f == stack[t][d]
             IN /\ \A b \in 1..Len(f.batches) : Len(f.batches[b]) \in 1..MULTI_BATCH_SIZE
                /\ ListExhausted(f) =>
                      \A k \in 1..Len(f.listed) :
                         Cardinality(PlacesOf(f, Append(f.path, f.listed[k]))) =
                            IF f.keep_child_node # "" /\ f.listed[k] = f.keep_child_node
                            THEN 0 ELSE 1
       /\ LeavesTakeCeilBatches(t)

\* C16 witness: a deletion of three leaf children has returned after two
\* batches.
ThreeLeavesInTwoBatches ==
    \E t \in Threads :
       /\ ReturnedFromLeaves(t)
       /\ Cardinality(Children(trace.start, trace.path)) = MULTI_BATCH_SIZE + 1
       /\ Cardinality(SentOfKinds({"Multi"})) = 2

\* path and every node below it, in tree ns.
Subtree(ns, path) ==
    { p \in ns : Len(p) >= Len(path) /\ SubSeq(p, 1, Len(path)) = path }

\* The strict recursive deletion in progress (or just over) has run alone.
StrictAlone ==
    /\ trace.fn \in {"removeRecursive", "removeChildrenRecursive"}
    /\ trace.others = {}

\* The removals the step submits: the paths of the entry it appends to the
\* history, when that entry is a multi or a remove.
SubmittedRemovals ==
    IF Len(trace'.sent) = Len(trace.sent) + 1
       /\ trace'.sent[Len(trace'.sent)].kind \in {"Multi", "Remove"}
    THEN { trace'.sent[Len(trace'.sent)].paths[k] :
             k \in 1..Len(trace'.sent[Len(trace'.sent)].paths) }
    ELSE {}

\* C12: with no other client mutating the subtree, removeRecursive(path)
\* (and removeChildrenRecursive, which does its descent) works depth-first:
\* when the removal of a node is submitted, every node below it has already
\* been removed; the remove of path itself is the last request issued, and
\* it is issued once; and when removeRecursive returns, path and every
\* descendant are gone and nothing else is.
RemoveRecursiveIsDepthFirst ==
    /\ [][StrictAlone /\ trace'.fn = trace.fn =>
             \A p \in SubmittedRemovals : p \in nodes /\ Children(nodes, p) = {}]_vars
    /\ [](\A t \in Threads :
             StrictAlone /\ trace.fn = "removeRecursive" =>
                /\ \A j \in RemovesSentFrom(trace, 1) :
                      (\E k \in 1..Len(trace.sent[j].paths) : trace.sent[j].paths[k] = trace.path)
                         => /\ j = Len(trace.sent)
                            /\ trace.sent[j] = Entry("Remove", <<trace.path>>, 1)
                /\ ended[t].kind = "returned" =>
                      /\ trace.sent[Len(trace.sent)] = Entry("Remove", <<trace.path>>, 1)
                      /\ nodes = trace.start \ Subtree(trace.start, trace.path))

\* C12 witness: removeRecursive has returned from a node with children,
\* no other client having touched the tree.
RemoveRecursiveOfParentReturned ==
    \E t \in Threads :
       /\ StrictAlone /\ trace.fn = "removeRecursive"
       /\ ended[t].kind = "returned"
       /\ Cardinality(Subtree(trace.start, trace.path)) > MULTI_BATCH_SIZE + 1
       /\ Subtree(nodes, trace.path) = {}

\* The call has ended by raising an exception.
Raised(t) == ended[t].kind \notin {"none", "returned"}

\* The nodes the call itself has removed so far.
RemovedByIt == (trace.start \ nodes) \ trace.others

\* The paths of entry j of the history.
PathsOfSent(j) == { trace.sent[j].paths[k] : k \in 1..Len(trace.sent[j].paths) }

\* C13: the strict recursive deletion is all-or-nothing: whenever
\* removeRecursive(path) raises, no node of the subtree has been removed by
\* it; whenever it returns normally, the whole subtree and path are removed.
RemoveRecursiveIsAllOrNothing ==
    \A t \in Threads :
       trace.fn = "removeRecursive" =>
          /\ Raised(t) => RemovedByIt = {}
          /\ ended[t].kind = "returned" => Subtree(nodes, trace.path) = {}

\* C13 amended: removeRecursive(path) either returns normally, and then
\* path and every descendant have been removed (no client creating nodes),
\* or raises, and then nothing is rolled back: what it has removed are the
\* nodes of the batches (and of the final remove) that the server applied,
\* each batch applied as a whole or not at all, and they stay removed.
RemoveRecursiveIsAtomicPerBatchOnly ==
    /\ [](\A t \in Threads :
            trace.fn = "removeRecursive" =>
               /\ ended[t].kind = "returned" =>
                     /\ Subtree(nodes, trace.path) = {}
                     /\ nodes = (trace.start \ Subtree(trace.start, trace.path)) \ trace.others
               /\ RemovedByIt \subseteq Subtree(trace.start, trace.path)
               /\ \A p \in RemovedByIt :
                     \E j \in SentOfKinds({"Multi", "Remove"}) : p \in PathsOfSent(j)
               /\ \A j \in SentOfKinds({"Multi"}) :
                     \/ PathsOfSent(j) \cap nodes = {}
                     \/ PathsOfSent(j) \cap RemovedByIt = {})
    /\ [][\A t \in Threads :
            trace.fn = "removeRecursive" /\ trace'.fn = trace.fn /\ Raised(t) =>
               RemovedByIt \subseteq (trace.start \ nodes')]_vars

\* C13 witness: removeRecursive has raised after it removed a node of the
\* subtree, which is still there in part.
RemoveRecursiveRaisedHalfway ==
    \E t \in Threads :
       /\ trace.fn = "removeRecursive"
       /\ Raised(t)
       /\ RemovedByIt # {}
       /\ Subtree(nodes, trace.path) # {}

\* The outermost activation of tryRemoveChildrenRecursive under
\* tryRemoveRecursive took the fallback: one of its batches failed.
OutermostBatchFailed ==
    \E j \in SentOfKinds({"AsyncRemove"}) : trace.sent[j].depth = 2

\* C14: when another client deletes listed children of path while
\* tryRemoveRecursive(path) runs (no client creating nodes, the session
\* lasting), the call terminates without raising, afterwards path and all
\* of its descendants are gone, and when a batched multi of
\* tryRemoveChildrenRecursive(path) failed, that call returned false.
TryRemoveRecursiveConverges ==
    /\ [](\A t \in Threads :
            trace.fn = "tryRemoveRecursive" =>
               /\ ~Raised(t)
               /\ ended[t].kind = "returned" => Subtree(nodes, trace.path) = {}
               /\ trace.value # "none" /\ OutermostBatchFailed => trace.value = "false"
               /\ trace.value = "true" => ~FallbackTaken)
    /\ \A t \in Threads : (stack[t] # <<>>) ~> (ended[t].kind = "returned")

\* C14 witness: another client deleted a child that a batch of
\* tryRemoveRecursive named, the batch failed, and the call has returned
\* with path and its descendants gone.
TryRemoveRecursiveAfterFailedBatch ==
    \E t \in Threads :
       /\ trace.fn = "tryRemoveRecursive"
       /\ ended[t].kind = "returned"
       /\ OutermostBatchFailed
       /\ trace.others # {}
       /\ trace.value = "false"
       /\ Subtree(nodes, trace.path) = {}

\* The call of waitForDisappear by thread t has returned value.
WaitReturned(t, value) ==
    /\ wait.path # NoPath
    /\ ended[t].kind = "returned"
    /\ ended[t].value = value

\* C19: waitForDisappear returns false only if the caller's poll condition
\* evaluated to false: it returns false when the condition has turned
\* false, and as long as the condition evaluates to true it keeps waiting.
WaitReturnsFalseOnlyOnFalseCondition ==
    \A t \in Threads : WaitReturned(t, FALSE) => wait.evaluated = "false"

\* C20: waitForDisappear returns true when its read answers NO-NODE or its
\* watch delivers DELETED, and the KeeperException it raises carries a code
\* other than OK and NO-NODE, delivered by the read or the watch (or by the
\* expired session refusing the read).
WaitRaisesOnlyOtherCodes ==
    \A t \in Threads :
       wait.path # NoPath /\ Raised(t) => ended[t].exc_code \notin {ZOK, ZNONODE}

\* The thread is inside createOrUpdate.
InCreateOrUpdate(t) == stack[t] # <<>> /\ Top(t).fn = "createOrUpdate"

\* The bridge call the thread has just finished completed with code.
Completed(t, code) == result[t].status = "ready" /\ result[t].code = code

\* C21: createOrUpdate first submits a set with version -1 and then at most
\* one create of the same path, the create only after the set answered
\* ZNONODE; it returns only after the set or the create answered ZOK, and
\* every other outcome of either leaves it with an exception that carries
\* the code.
CreateOrUpdateSetsThenCreates ==
    /\ [](trace.fn = "createOrUpdate" =>
            /\ Len(trace.sent) <= 2
            /\ Len(trace.sent) >= 1 => trace.sent[1] = Entry("Set", <<trace.path>>, 1)
            /\ Len(trace.sent) = 2 => trace.sent[2] = Entry("Create", <<trace.path>>, 1))
    /\ [](\A t \in Threads :
            InCreateOrUpdate(t) /\ Top(t).at = "trySet" =>
                call[t] = Call("trySet", Top(t).path, AnyVersion, <<>>))
    /\ [][\A t \in Threads :
            InCreateOrUpdate(t) /\ pc[t] = "done" /\ stack'[t] # stack[t] =>
                LET at == Top(t).at
                    creates == at = "trySet" /\ Completed(t, ZNONODE)
                IN /\ Completed(t, ZOK) =>
                        /\ ended'[t].kind = "returned"
                        /\ trace'.sent = trace.sent
                        /\ at = "trySet" => Len(trace.sent) = 1
                   /\ creates =>
                        /\ ended'[t] = NoEnd
                        /\ stack'[t][1].at = "create"
                        /\ call'[t] = Call("create", Top(t).path, AnyVersion, <<>>)
                   /\ ~Completed(t, ZOK) /\ ~creates =>
                        /\ ended'[t].kind \notin {"none", "returned"}
                        /\ result[t].status = "ready" => ended'[t].exc_code = result[t].code
                        /\ trace'.sent = trace.sent]_vars

\* createOrUpdate found no node, another client created it, and the create
\* was refused with ZNODEEXISTS, which createOrUpdate threw.
CreateOrUpdateLostTheRace ==
    /\ trace.fn = "createOrUpdate"
    /\ Len(trace.sent) = 2
    /\ ended[1].kind = "KeeperException"
    /\ ended[1].exc_code = ZNODEEXISTS
    /\ trace.path \in nodes

\* The thread is inside createAncestors.
InCreateAncestors(t) == stack[t] # <<>> /\ Top(t).fn = "createAncestors"

\* The lengths of the prefixes of s that end just before a '/' which is not
\* the first character of s.
AncestorEnds(s) == { k \in 1..(Len(s) - 1) : s[k + 1] = Slash }

\* Those prefixes, from the shortest to the longest.
AncestorsOf(s) ==
    [j \in 1..Cardinality(AncestorEnds(s)) |->
        SubSeq(s, 1, CHOOSE k \in AncestorEnds(s) :
                         Cardinality({m \in AncestorEnds(s) : m < k}) = j - 1)]

IsPrefixOf(a, b) == Len(a) <= Len(b) /\ a = SubSeq(b, 1, Len(a))

\* The path is one whose ancestors are node paths.
AncestorsAreNodes(s) == \A j \in 1..Len(AncestorsOf(s)) : NodePath(AncestorsOf(s)[j]) # BadPath

\* C22: createAncestors hands to createIfNotExists the prefixes of path that
\* end just before a '/' at position 1 or later, from the shortest to the
\* longest, each once, and never path itself; it does not raise because a
\* node exists already or because a parent is missing (only when the session
\* ended, or when a prefix is no node path), all ancestors exist when it
\* returns, and a createIfNotExists of a node that exists changes nothing.
CreateAncestorsIsIdempotent ==
    /\ [](\A t \in Threads : InCreateAncestors(t) =>
            /\ IsPrefixOf(Top(t).batches, AncestorsOf(Top(t).path))
            /\ \A j \in 1..Len(Top(t).batches) : Top(t).batches[j] # Top(t).path
            /\ Top(t).at = "createIfNotExists" =>
                  call[t] = Call("createIfNotExists",
                                 NodePath(Top(t).batches[Len(Top(t).batches)]),
                                 AnyVersion, <<>>))
    /\ [][\A t \in Threads : InCreateAncestors(t) /\ stack'[t] = <<>> =>
            LET path == Top(t).path
            IN IF ended'[t].kind = "returned"
               THEN /\ Top(t).batches = AncestorsOf(path)
                    /\ \A j \in 1..Len(AncestorsOf(path)) :
                          NodePath(AncestorsOf(path)[j]) \in nodes'
               ELSE \/ ended'[t].exc_code \in SessionErrors
                    \/ ~AncestorsAreNodes(path) /\ ended'[t].exc_code = ZBADARGUMENTS]_vars
    /\ [][\A t \in Threads :
            /\ t \in pending /\ t \notin pending'
            /\ call[t].op = "createIfNotExists" /\ call[t].path \in nodes
            => /\ nodes' = nodes
               /\ ver' = ver
               /\ ~expired' => promise'[t].error = ZNODEEXISTS]_vars

\* Two callers created the ancestors of "/a/b/c" and "/a/b" at once on an
\* empty tree: one has returned, and the other was just told that the last
\* ancestor it asked for exists already.
AncestorsCreatedConcurrently ==
    /\ trace.start = {}
    /\ ended[NumThreads].kind = "returned"
    /\ InCreateAncestors(1)
    /\ Len(Top(1).batches) = 2
    /\ pc[1] = "done"
    /\ result[1].code = ZNODEEXISTS

\* The handle has just come out of shuffleHosts.
Shuffled(c) == c.at = "resolve" /\ c.i = 1

\* The priority the handle's policy gives to its k-th configured host.
PriorityOfHost(c, k) ==
    IF HasPriorityFunc(c.get_priority_load_balancing)
    THEN get_priority(c.get_priority_load_balancing, k - 1)
    ELSE DefaultPriority

\* The place of the k-th configured host in the shuffled list (the
\* configured hosts are distinct).
PlaceOfHost(c, k) ==
    CHOOSE j \in 1..Len(c.shuffled_hosts) : c.shuffled_hosts[j].host = c.hosts[k]

\* C23: the list shuffleHosts returns holds the configured hosts, each once
\* and with its priority; it is ordered by priority and, within one
\* priority, by the random value, so a host never comes after a host of a
\* worse (greater) priority, whatever the random values are.
ShuffleHostsSortsAPermutation ==
    \A h \in Handles :
        Shuffled(clients[h]) =>
            LET c == clients[h]
                s == c.shuffled_hosts
                n == Len(c.hosts)
            IN /\ Len(s) = n
               /\ \E order \in Orders(n) :
                     \A k \in 1..n : /\ s[k].host = c.hosts[order[k]]
                                     /\ s[k].priority = PriorityOfHost(c, order[k])
               /\ \A k \in 1..n : \A j \in 1..(k - 1) :
                     /\ s[j].priority <= s[k].priority
                     /\ s[j].priority = s[k].priority => s[j].random <= s[k].random
               /\ \A j, k \in 1..n :
                     PriorityOfHost(c, j) < PriorityOfHost(c, k) =>
                         PlaceOfHost(c, j) < PlaceOfHost(c, k)

\* Three hosts, the first preferred: it stays first, and the two others
\* come out in the other order than configured.
EqualPriorityHostsSwapped ==
    /\ Shuffled(clients["original"])
    /\ clients["original"].get_priority_load_balancing = "FIRST_OR_RANDOM"
    /\ clients["original"].hosts = <<HostA, HostB, HostC>>
    /\ clients["original"].shuffled_hosts[1].host = HostA
    /\ clients["original"].shuffled_hosts[2].host = HostC

\* The hosts of handle c whose resolution succeeded, in the order of the
\* shuffled list.
ResolvedHosts(c) ==
    LET Resolved(k) == c.resolutions[k] = "resolved"
        kept == SelectSeq([k \in 1..Len(c.resolutions) |-> k], Resolved)
    IN [j \in 1..Len(kept) |-> c.shuffled_hosts[kept[j]].host]

\* The loop of init over the shuffled hosts of handle c has ended.
ResolutionOver(c) ==
    /\ c.implementation = "zookeeper"
    /\ c.hosts # <<>>
    /\ c.at \notin {"none", "shuffleHosts"}
    /\ c.at = "resolve" => c.i > Len(c.shuffled_hosts)

\* C24: with the "zookeeper" implementation, an empty host list fails with
\* ZBADARGUMENTS; the nodes collected for the engine are the hosts whose
\* resolution succeeded, in the order of the shuffled list, each with its
\* secure flag and without the marker; when none resolved, construction
\* fails with ZCONNECTIONLOSS if a failure was a DNSException and with
\* ZBADARGUMENTS otherwise; and in the failing cases no session is made.
HostResolutionDecidesConstruction ==
    \A h \in Handles :
        LET c == clients[h]
            passed == ResolvedHosts(c)
        IN /\ (c.at # "none" /\ c.implementation = "zookeeper" /\ c.hosts = <<>>) =>
                 /\ c.at = "failed"
                 /\ c.error = [kind |-> "KeeperException", code |-> ZBADARGUMENTS]
                 /\ ~c.made
           /\ (c.implementation = "zookeeper" /\ c.at # "none") =>
                 /\ [k \in 1..Len(c.nodes) |-> c.nodes[k].address] = passed
                 /\ \A k \in 1..Len(c.nodes) :
                       \E j \in 1..Len(c.hosts) :
                          c.hosts[j] = IF c.nodes[k].secure
                                       THEN <<SecureMarker>> \o c.nodes[k].address
                                       ELSE c.nodes[k].address
           /\ (ResolutionOver(c) /\ c.at # "resolve") =>
                 /\ Len(c.resolutions) = Len(c.hosts)
                 /\ IF passed = <<>>
                    THEN /\ c.at = "failed"
                         /\ ~c.made
                         /\ c.error =
                               [kind |-> "KeeperException",
                                code |-> IF \E k \in 1..Len(c.resolutions) :
                                               c.resolutions[k] = "DNSException"
                                         THEN ZCONNECTIONLOSS
                                         ELSE ZBADARGUMENTS]
                    ELSE /\ c.made
                         /\ c.at # "failed" =>
                               c.impl.kind = "zookeeper" /\ c.impl.nodes = c.nodes

\* A handle is built although the resolution of one host failed with a
\* DNSException: the two others reached the engine, in an order that is not
\* the configured one.
HostDroppedOthersPassedShuffled ==
    \E h \in Handles :
        LET c == clients[h]
        IN /\ c.at = "built"
           /\ c.impl.kind = "zookeeper"
           /\ Len(c.hosts) = 3
           /\ Len(c.impl.nodes) = 2
           /\ \E k \in 1..3 : c.resolutions[k] = "DNSException"
           /\ \E j, k \in 1..3 :
                 /\ j < k
                 /\ c.impl.nodes[1].address = c.hosts[k]
                 /\ c.impl.nodes[2].address = c.hosts[j]

\* No host resolved and one failure was a DNSException.
NoHostResolvedDnsError ==
    \E h \in Handles :
        LET c == clients[h]
        IN /\ c.at = "failed" /\ ~c.made
           /\ c.error.code = ZCONNECTIONLOSS
           /\ \E k \in 1..Len(c.resolutions) : c.resolutions[k] = "HostNotFoundException"

\* What the end of the wait for the root check makes of handle c.
RootCheckOutcome(c) ==
    IF c.future = NoFuture
    THEN Failed(c, "KeeperException", ZOPERATIONTIMEOUT)
    ELSE IF c.future.error = ZOK
    THEN [c EXCEPT !.at = "built"]
    ELSE Failed(c, "KeeperException", c.future.error)

\* C25: only a handle with a chroot waits for the existence check of "/",
\* and for at most operation_timeout_ms; the wait ends with
\* ZOPERATIONTIMEOUT when no answer has arrived at the deadline, with ZNONODE
\* when the answer is ZNONODE, with the answer's code when it is any other
\* code than ZOK, and with a built handle only when the answer is ZOK; a
\* handle without chroot is built without a check.
RootCheckGuardsConstruction ==
    /\ [](\A h \in Handles :
            LET c == clients[h]
            IN /\ c.at = "wait_for" =>
                     c.chroot # <<>> /\ c.made /\ c.elapsed <= OperationTimeout
               /\ (c.at = "built" /\ c.chroot # <<>>) =>
                     c.future.status = "value" /\ c.future.error = ZOK
               /\ (c.at = "built" /\ c.chroot = <<>>) => c.future = NoFuture)
    /\ [][\A h \in Handles :
            /\ (clients[h].at = "wait_for" /\ clients'[h].at # "wait_for") =>
                  /\ clients[h].future = NoFuture => clients[h].elapsed = OperationTimeout
                  /\ clients'[h] = RootCheckOutcome(clients[h])
            /\ (clients[h].at # "wait_for" /\ clients'[h].at = "wait_for") =>
                  /\ clients'[h].chroot # <<>>
                  /\ clients'[h].made
                  /\ clients'[h].future = NoFuture]_vars

\* The engine answered the root check with ZNONODE and the construction
\* failed with it, after the session was made.
RootMissingFailsConstruction ==
    \E h \in Handles :
        LET c == clients[h]
        IN /\ c.at = "failed"
           /\ c.made
           /\ c.chroot # <<>>
           /\ c.future = [status |-> "value", error |-> ZNONODE]
           /\ c.error = [kind |-> "KeeperException", code |-> ZNONODE]

\* The root check was not answered in time.
RootCheckTimedOut ==
    \E h \in Handles :
        LET c == clients[h]
        IN /\ c.at = "failed" /\ c.made /\ c.future = NoFuture
           /\ c.error.code = ZOPERATIONTIMEOUT

\* The root check was answered with another code than ZOK and ZNONODE.
RootCheckOtherCode ==
    \E h \in Handles :
        LET c == clients[h]
        IN /\ c.at = "failed" /\ c.made /\ c.future.status = "exception"
           /\ c.error.code = c.future.error

\* The chroot member of handle c is not empty and does not start with "/".
BadChroot(c) == c.chroot # <<>> /\ c.chroot[1] # Slash

\* C26: a construction with a non-empty chroot that does not start with "/"
\* fails with ZBADARGUMENTS and makes no session, whichever constructor is
\* used (stated for the "zookeeper" implementation).
BadChrootRejectedByEveryConstructor ==
    \A h \in Handles :
        LET c == clients[h]
        IN (c.at # "none" /\ c.implementation = "zookeeper" /\ BadChroot(c)) =>
              /\ ~c.made
              /\ c.at # "built"
              /\ c.at = "failed" => c.error = [kind |-> "KeeperException", code |-> ZBADARGUMENTS]

\* A handle of the "zookeeper" implementation is built, with a session, on
\* a chroot that does not start with "/".
BadChrootHandleBuilt ==
    \E h \in Handles :
        LET c == clients[h]
        IN /\ c.at = "built"
           /\ c.implementation = "zookeeper"
           /\ BadChroot(c)
           /\ c.made
           /\ c.impl.chroot = c.chroot

\* The constructor that takes a configuration never hands a chroot that
\* does not start with "/" to init.
ConfigConstructorRejectsBadChroot ==
    \A h \in Handles : clients[h].ctor = "config" => ~BadChroot(clients[h])

\* The static configuration of handle c, as startNewSession passes it on.
StaticConfiguration(c) ==
    <<c.hosts, c.identity, c.session_timeout_ms, c.operation_timeout_ms, c.chroot,
      c.implementation, c.get_priority_load_balancing>>

\* C27: the handle startNewSession returns is constructed from the hosts,
\* identity, timeouts, chroot, implementation and load-balancing policy of
\* the original, and the original is left as it is: while it is held, the
\* only change it ever sees is the end of its own session, so an expired
\* original stays expired however many new handles are made from it.
StartNewSessionLeavesOriginal ==
    /\ [](clients["new"].at # "none" =>
             /\ clients["original"].at = "built"
             /\ StaticConfiguration(clients["new"]) = StaticConfiguration(clients["original"]))
    /\ [][/\ clients'["new"] # clients["new"] => clients'["original"] = clients["original"]
          /\ clients["original"].at = "built" =>
                \/ clients'["original"] = clients["original"]
                \/ clients'["original"] = [clients["original"] EXCEPT !.impl.expired = TRUE]
                \/ clients'["original"] = NoClient /\ clients["new"].at = "none"]_vars

\* The original has expired and the handle made from it is built with a
\* session of its own that is not expired, on the same identity and chroot.
NewSessionBesideExpiredOriginal ==
    /\ clients["original"].at = "built"
    /\ clients["original"].impl.expired
    /\ clients["original"].identity # ""
    /\ clients["original"].chroot # <<>>
    /\ clients["new"].at = "built"
    /\ ~clients["new"].impl.expired
    /\ clients["new"].impl.identity = clients["original"].identity
    /\ clients["new"].impl.chroot = clients["original"].chroot

\* Thread t enters the fallback in this step: its tryMulti is over and it
\* goes on to await the futures of the batch.
EntersFallback(t) ==
    /\ stack[t] # <<>> /\ Top(t).at = "tryMulti"
    /\ Len(stack'[t]) = Len(stack[t])
    /\ stack'[t][Len(stack'[t])].at = "get"

\* Thread t takes the result of futures[i] in this step.
TakesFuture(t) ==
    /\ stack[t] # <<>> /\ Top(t).at = "get" /\ pc[t] = "get"
    /\ Top(t).i < Len(Top(t).batch)
    /\ \/ Len(stack'[t]) # Len(stack[t])
       \/ stack'[t][Len(stack'[t])].i # Top(t).i
       \/ stack'[t][Len(stack'[t])].at # "get"

\* C28: when the tryMulti of a batch fails with a user error, one removal is
\* submitted for every child of the batch, in the order of the batch, before
\* the first result is awaited; the results are taken in that order, one
\* at a time; ZOK and ZNONODE move on to the next result, and a code other
\* than ZOK, ZNONODE and ZNOTEMPTY raises KeeperException(code, batch[i]) at
\* once: every activation is left, nothing more is submitted or taken.
FallbackFiresAllThenAwaitsInOrder ==
    /\ [](\A t \in Threads : \A d \in 1..Len(stack[t]) :
            stack[t][d].at \in {"get", "recurse_get", "tryRemove"} =>
               /\ Len(stack[t][d].futures) = Len(stack[t][d].batch)
               /\ stack[t][d].i <= Len(stack[t][d].batch)
               /\ ~stack[t][d].removed_as_expected)
    /\ [][\A t \in Threads :
            LET f == Top(t)
                g == stack'[t][Len(stack'[t])]
                res == f.futures[f.i + 1]
            IN /\ EntersFallback(t) =>
                     /\ result[t].kind = "returned" /\ result[t].value # ZOK
                     /\ g.batch = f.batch
                     /\ g.futures = [j \in 1..Len(f.batch) |-> NoResponse]
                     /\ g.i = 0
                     /\ trace'.sent = trace.sent \o
                           [j \in 1..Len(f.batch) |->
                               Entry("AsyncRemove", <<f.batch[j]>>, Len(stack[t]))]
               /\ TakesFuture(t) =>
                     /\ res # NoResponse
                     /\ res.error \in {ZOK, ZNONODE} =>
                           /\ stack'[t] = [stack[t] EXCEPT ![Len(stack[t])].i = f.i + 1]
                           /\ ended' = ended
                           /\ trace' = trace
                     /\ res.error \notin {ZOK, ZNONODE, ZNOTEMPTY} =>
                           /\ stack'[t] = <<>>
                           /\ ended'[t] = End("KeeperException", "none", res.error,
                                              f.batch[f.i + 1])
                           /\ pc'[t] = "idle"
                           /\ trace' = trace
                           /\ nodes' = nodes]_vars

\* The fallback of a batch of two children has taken the first result and
\* the second one carries a code that is none of ZOK, ZNONODE, ZNOTEMPTY.
FallbackAboutToRaise ==
    \E t \in Threads :
        /\ stack[t] # <<>> /\ Top(t).at = "get" /\ pc[t] = "get"
        /\ Len(Top(t).batch) = 2
        /\ Top(t).i = 1
        /\ Top(t).futures[1] # NoResponse
        /\ Top(t).futures[1].error \in {ZOK, ZNONODE}
        /\ Top(t).futures[2] # NoResponse
        /\ Top(t).futures[2].error \notin {ZOK, ZNONODE, ZNOTEMPTY}

\* The fallback has raised for a child of the batch.
FallbackRaisedForChild ==
    \E t \in Threads :
        /\ ended[t] # NoEnd
        /\ ended[t].kind = "KeeperException"
        /\ ended[t].exc_code = ZSESSIONEXPIRED
        /\ ended[t].exc_path \in AllPaths

\* The outermost activation of thread t returns to the caller in this step.
ReturnsToCaller(t) ==
    /\ Len(stack[t]) = 1
    /\ Top(t).fn = "tryRemoveChildrenRecursive"
    /\ stack'[t] = <<>>
    /\ ended'[t].kind = "returned"

\* In the fallback a removal answers ZNOTEMPTY only in an activation with
\* probably_flat.
NotEmptyOnlyWhenProbablyFlat ==
    \A t \in Threads : \A d \in 1..Len(stack[t]) :
        \A j \in 1..Len(stack[t][d].futures) :
           (stack[t][d].futures[j] # NoResponse
               /\ stack[t][d].futures[j].error = ZNOTEMPTY) => stack[t][d].probably_flat

\* The children the returning activation f put in a batch are gone in the
\* tree ns, those apart that other clients create again themselves.
BatchedChildrenGone(f, ns) ==
    \A b \in 1..Len(f.batches) : \A j \in 1..Len(f.batches[b]) :
        f.batches[b][j] \notin FallbackCreated => f.batches[b][j] \notin ns

ReturnLeavesNoBatchedChild ==
    [][\A t \in Threads : ReturnsToCaller(t) => BatchedChildrenGone(Top(t), nodes')]_vars

\* The same for the calls with the probably_flat shortcut only, where the
\* code does descend and retry on ZNOTEMPTY.
FlatReturnLeavesNoBatchedChild ==
    [][\A t \in Threads :
         (ReturnsToCaller(t) /\ Top(t).probably_flat) =>
            BatchedChildrenGone(Top(t), nodes')]_vars

\* C29: in the fallback a removal answers ZNOTEMPTY only when the
\* probably_flat shortcut skipped the descent, and whenever
\* tryRemoveChildrenRecursive returns to its caller, every child it put in a
\* batch is gone, also when other clients create nodes under those children
\* meanwhile.
FallbackLeavesNoBatchedChild ==
    /\ []NotEmptyOnlyWhenProbablyFlat
    /\ ReturnLeavesNoBatchedChild

\* C30: a completion that arrives after wait_for has given up is discarded:
\* the call still ends with ZOPERATIONTIMEOUT and finalize, exactly as if
\* nothing had arrived, and does not assign the caller's output parameters;
\* the outcome handed to the caller no longer changes; the promise of a
\* request is fulfilled at most once; and a terminated session stays
\* terminated.
LateCompletionIsDiscarded ==
    /\ [](\A t \in Threads :
            result[t].status = "timeout" =>
               /\ result[t].code = ZOPERATIONTIMEOUT
               /\ ~result[t].wrote
               /\ result[t].finalize
               /\ expired)
    /\ [][/\ \A t \in Threads :
               /\ (pc[t] = "timed_out" /\ pc'[t] # "timed_out") =>
                     /\ pc'[t] = "done"
                     /\ result'[t] = Dispatch(call[t], "timeout", NoResponse)
               /\ (pc[t] = "done" /\ pc'[t] = "done") => result'[t] = result[t]
               /\ (promise[t] # NoResponse /\ pc'[t] # "idle") => promise'[t] = promise[t]
          /\ expired => expired']_vars

\* A get has timed out although the server's answer ZOK reached its promise
\* after the deadline: the caller has the ZOPERATIONTIMEOUT exception.
LateAnswerAfterTimeout ==
    \E t \in Threads :
        /\ pc[t] = "done"
        /\ call[t].op = "get"
        /\ result[t].status = "timeout"
        /\ result[t].kind = "KeeperException"
        /\ result[t].exc_code = ZOPERATIONTIMEOUT
        /\ promise[t].src = "server"
        /\ promise[t].error = ZOK

\* C31: every client constructed from a configuration has a chroot that is
\* empty, or starts with "/" and does not end with "/", whatever the
\* configured root is.
ConfigChrootIsNormalised ==
    \A h \in Handles :
        clients[h].ctor = "config" =>
           \/ clients[h].chroot = <<>>
           \/ /\ clients[h].chroot[1] = Slash
              /\ clients[h].chroot[Len(clients[h].chroot)] # Slash

\* A handle built from a configuration holds a chroot that ends with "/",
\* and so does its engine.
ConfigChrootEndsWithSlash ==
    \E h \in Handles :
        LET c == clients[h]
        IN /\ c.ctor = "config"
           /\ c.at = "built"
           /\ c.chroot # <<>>
           /\ c.chroot[Len(c.chroot)] = Slash
           /\ c.impl.chroot = c.chroot

\* q lies below p in the tree.
Below(p, q) == Len(q) > Len(p) /\ SubSeq(q, 1, Len(p)) = p

\* The call in progress (or just over) takes a keep_child_node and descends
\* into the children before it removes them.
DescendingKeepCall ==
    /\ KeepCall
    /\ trace.fn = "removeChildrenRecursive" \/ ~trace.probably_flat

\* The history holds the listing of path p by the activation at depth d.
ListedAt(p, d) ==
    \E j \in 1..Len(trace.sent) :
        /\ trace.sent[j].kind = "List"
        /\ trace.sent[j].paths = <<p>>
        /\ trace.sent[j].depth = d

\* C32: keep_child_node spares the direct child of that name and nothing
\* else: no recursive activation ever has a keep_child_node, the kept child
\* is descended into like its siblings, and when removeChildrenRecursive, or
\* tryRemoveChildrenRecursive without probably_flat, has returned, no node
\* below path is left but the kept child itself: its descendants and the
\* deeper nodes of the same name are gone.
KeepProtectsOnlyTheTopLevelNode ==
    \A t \in Threads :
       /\ \A d \in 2..Len(stack[t]) :
             stack[t][d].fn \in {"removeChildrenRecursive", "tryRemoveChildrenRecursive"} =>
                stack[t][d].keep_child_node = ""
       /\ (DescendingKeepCall /\ ended[t].kind = "returned") =>
             /\ \A p \in nodes : Below(trace.path, p) => p = KeepChild
             /\ (KeepChild \in trace.start /\ KeepChild \notin trace.others) =>
                   ListedAt(KeepChild, 2)

\* A call that keeps "a" below the root has returned: nobody else removed
\* anything, /a is still there and its three children are gone.
KeptChildLosesItsDescendants ==
    \E t \in Threads :
       /\ DescendingKeepCall
       /\ ended[t].kind = "returned"
       /\ trace.path = Root
       /\ trace.keep_child_node = "a"
       /\ trace.start = AllPaths
       /\ trace.others = {}
       /\ nodes = {PathA}

\* A call that keeps "b" below the root has returned: the node /a/b, deeper
\* in the tree, is gone with everything else.
DeeperNodeOfKeptNameRemoved ==
    \E t \in Threads :
       /\ DescendingKeepCall
       /\ ended[t].kind = "returned"
       /\ trace.path = Root
       /\ trace.keep_child_node = "b"
       /\ PathAB \in trace.start
       /\ trace.others = {}
       /\ nodes = {}

\* C33: waitForDisappear returns true only if, during that call, a read
\* answered ZNONODE or a watch delivered a DELETED event: an event of another
\* type, a read that answered ZOK or a second elapsing without an event
\* never makes it return true; and the poll condition is consulted only
\* after the read has been issued at least once.
WaitReturnsTrueOnlyWhenGone ==
    /\ \A t \in Threads : WaitReturned(t, TRUE) => wait.gone
    /\ wait.at = "condition" \/ wait.evaluated # "none" => wait.issued

\* A call has returned true on a DELETED event after its read answered ZOK.
WaitReturnedTrueOnDeleted ==
    /\ WaitReturned(1, TRUE)
    /\ wait.code = ZOK
    /\ wait.event_type = DELETED

\* A CHANGED event woke the caller, which has gone on to the loop test.
WaitGoesOnAfterChanged ==
    /\ wait.at = "condition"
    /\ wait.event_type = CHANGED
    /\ ~wait.gone

\* C34: a bridge operation that ends with a code other than ZOK, timeout
\* included, leaves the caller's output parameters as they were (res and
\* stat of getImpl and getChildrenImpl, path_created of createImpl, stat of
\* existsImpl and setImpl); multiImpl leaves responses as it was on timeout
\* and on empty input, and assigns it the engine's response list on every
\* completed call, whatever the code.
OutputsAssignedOnlyOnOK ==
    \A t \in Threads :
        pc[t] = "done" =>
            LET r == result[t]
                c == call[t]
            IN /\ c.op \in PathOps =>
                     (r.wrote => r.status = "ready" /\ r.code = ZOK /\ promise[t].error = ZOK)
               /\ c.op \in MultiOps =>
                     /\ r.wrote <=> r.status = "ready"
                     /\ r.wrote => r.responses = promise[t].responses
                     /\ ~r.wrote => r.responses = <<>>
               /\ c.op \in MultiOps /\ (c.requests = <<>> \/ r.status = "timeout") => ~r.wrote

\* A get completed with ZNONODE and assigned nothing.
GetFailedAndAssignedNothing ==
    /\ Bridged_Done(1, {"tryGetWatch"})
    /\ result[1].status = "ready"
    /\ result[1].code = ZNONODE
    /\ ~result[1].wrote

\* A multi completed with a code other than ZOK, and the caller's responses
\* are the engine's list.
MultiFailedAndAssignedResponses ==
    /\ Bridged_Done(1, MultiOps)
    /\ result[1].status = "ready"
    /\ result[1].code = ZBADVERSION
    /\ result[1].wrote
    /\ result[1].responses = promise[1].responses
    /\ result[1].responses # <<>>

\* A multi timed out, or had nothing to submit, and assigned nothing.
MultiTimedOutAndAssignedNothing ==
    /\ Bridged_Done(1, MultiOps)
    /\ result[1].status = "timeout"
    /\ ~result[1].wrote

\* What the bridge handed back, without how the call ended.
BridgeOf(r) == Bridged(r.status, r.code, r.finalize, r.wrote, r.responses)

\* C35: tryMultiNoThrow never raises a coordination exception. It returns
\* the top-level code of the multi for every outcome, ZOPERATIONTIMEOUT and
\* the codes for which tryMulti raises included, and the code of the
\* exception when the submission itself throws; on timeout it terminates
\* the session, exactly as multi and tryMulti do.
TryMultiNoThrowAlwaysReturnsTheCode ==
    \A t \in Threads :
        pc[t] = "done" /\ call[t].op \in MultiOps =>
            LET r == result[t]
                same == tryMulti(call[t].requests, r.status, promise[t])
            IN /\ r.status = "timeout" => r.finalize /\ expired
               /\ call[t].op = "tryMultiNoThrow" =>
                     /\ r.kind = "returned"
                     /\ r.value = r.code
                     /\ r.status = "ready" => r.code = promise[t].error
                     /\ r.status = "timeout" => r.code = ZOPERATIONTIMEOUT
                     /\ r.status = "throw" => r.code = AnsweredByFinalize.error
                     /\ r.status \in {"ready", "timeout", "unsubmitted"} =>
                           /\ BridgeOf(r) = BridgeOf(same)
                           /\ same.kind # "returned" => r.value = same.exc_code

\* A tryMultiNoThrow timed out: it returned ZOPERATIONTIMEOUT and the
\* session is terminated.
TryMultiNoThrowReturnedTimeout ==
    /\ Bridged_Done(1, {"tryMultiNoThrow"})
    /\ result[1].status = "timeout"
    /\ result[1].kind = "returned"
    /\ result[1].value = ZOPERATIONTIMEOUT
    /\ result[1].finalize
    /\ expired

\* A tryMultiNoThrow was answered a session code and returned it.
TryMultiNoThrowReturnedSessionCode ==
    /\ Bridged_Done(1, {"tryMultiNoThrow"})
    /\ result[1].status = "ready"
    /\ result[1].kind = "returned"
    /\ result[1].value = ZSESSIONEXPIRED

\* A tryMultiNoThrow on a terminated session returned the code of the
\* exception its submission raised.
TryMultiNoThrowReturnedThrownCode ==
    /\ pc[1] = "done"
    /\ call[1].op = "tryMultiNoThrow"
    /\ result[1].status = "throw"
    /\ result[1].kind = "returned"
    /\ result[1].value = ZSESSIONEXPIRED
====
